---- MODULE Spec2Model ----
(***************************************************************************)
(* A model of the parsing and dispatch engine of commander.ts              *)
(* (src/lib/command.ts): the option classifier Command.parseOptions, the   *)
(* dispatcher Command._parseCommand, the life cycle hooks with their       *)
(* promise chaining, the error funnel Command.error / Command._exit and    *)
(* the save / restore of parse state.                                      *)
(*                                                                         *)
(* A token is a sequence of one-character strings, so that the tests the   *)
(* code makes on characters (arg[0] === "-", arg.slice(2), the regular     *)
(* expressions) are computed and not assumed.                              *)
(***************************************************************************)
EXTENDS Integers, Sequences, FiniteSets, TLC

(***************************************************************************)
(* Bounds of the model.                                                    *)
(***************************************************************************)
MaxLen == 3         \* longest token list handed to parseOptions directly
MaxArgv == 2        \* longest token list handed to parse(), after an optional --port 8;
                    \* one token more for the programs of the validation pass
MaxParses == 2      \* number of successive parse() calls on one tree
MaxCalls == 3       \* number of calls that declare commands and aliases
MaxAliases == 2     \* longest list handed to aliases()
MaxDigits == 2      \* longest port number in process.execArgv
MaxExecArgv == 2    \* longest process.execArgv
MaxSignals == 2     \* signals the parent process receives
MaxHelpArgv == 4    \* longest token list of the programs with every check

(***************************************************************************)
(* Tokens.                                                                 *)
(***************************************************************************)
T_dd == <<"-", "-">>
T_dash == <<"-">>
T_a == <<"-", "a">>
T_b == <<"-", "b">>
T_ab == <<"-", "a", "b">>
T_aV == <<"-", "a", "V">>
T_Va == <<"-", "V", "a">>
T_V == <<"-", "V">>
T_version == <<"-", "-", "v", "e", "r", "s", "i", "o", "n">>
T_p == <<"-", "p">>
T_port == <<"-", "-", "p", "o", "r", "t">>
T_o == <<"-", "o">>
T_opt == <<"-", "-", "o", "p", "t">>
T_l == <<"-", "l">>
T_list == <<"-", "-", "l", "i", "s", "t">>
T_u == <<"-", "u">>
T_h == <<"-", "h">>
T_helpflag == <<"-", "-", "h", "e", "l", "p">>
T_help == <<"h", "e", "l", "p">>
T_x == <<"x">>
T_8 == <<"8">>
T_prog == <<"p", "r", "o", "g">>
T_serve == <<"s", "e", "r", "v", "e">>
T_s == <<"s">>
T_leaf == <<"l", "e", "a", "f">>
T_star == <<"*">>
T_p8 == <<"-", "p", "8">>
T_y == <<"y">>
T_au == <<"-", "a", "u">>
T_adash == <<"-", "a", "-">>

Digits == {"0", "1", "2", "3", "4", "5", "6", "7", "8", "9"}

AllDigits(s) == \A k \in 1..Len(s) : s[k] \in Digits

\* /^-(\d+|\d*\.\d+)(e[+-]?\d+)?$/
NegativeNumberPattern(t) ==
  /\ Len(t) >= 2
  /\ t[1] = "-"
  /\ \E m \in 1..(Len(t) - 1) :
       LET mant == SubSeq(t, 2, m + 1)
           expo == SubSeq(t, m + 2, Len(t))
           sgn == IF Len(expo) >= 2 /\ expo[2] \in {"+", "-"} THEN 2 ELSE 1
           edig == SubSeq(expo, sgn + 1, Len(expo))
       IN /\ \/ AllDigits(mant)
             \/ \E d \in 1..(Len(mant) - 1) :
                  /\ mant[d] = "."
                  /\ AllDigits(SubSeq(mant, 1, d - 1))
                  /\ AllDigits(SubSeq(mant, d + 1, Len(mant)))
          /\ \/ expo = <<>>
             \/ /\ expo[1] = "e"
                /\ edig # <<>>
                /\ AllDigits(edig)

\* /^-\d$/
DigitShortFlag(t) == Len(t) = 2 /\ t[1] = "-" /\ t[2] \in Digits

\* arg.indexOf("="), 1-based; 0 when there is none
IndexOfEq(t) ==
  IF \E k \in 1..Len(t) : t[k] = "="
  THEN CHOOSE k \in 1..Len(t) : t[k] = "=" /\ \A j \in 1..(k - 1) : t[j] # "="
  ELSE 0

\* /^--[^=]+=/
LongFlagWithValue(t) ==
  /\ Len(t) >= 4
  /\ t[1] = "-"
  /\ t[2] = "-"
  /\ IndexOfEq(t) >= 4

(***************************************************************************)
(* Values an option or a processed argument can hold.  ep is a history     *)
(* field: the number of the parse() call that produced the value, 0 for a  *)
(* value set at registration.                                              *)
(***************************************************************************)
Undef == [k |-> "undef", b |-> FALSE, s |-> <<>>, l |-> <<>>, ep |-> 0]
Null == [Undef EXCEPT !.k = "null"]
Bool(b, ep) == [Undef EXCEPT !.k = "bool", !.b = b, !.ep = ep]
Str(s, ep) == [Undef EXCEPT !.k = "str", !.s = s, !.ep = ep]
List(l, ep) == [Undef EXCEPT !.k = "list", !.l = l, !.ep = ep]
Parsed(s, ep) == [Undef EXCEPT !.k = "parsed", !.s = s, !.ep = ep]

IsNullish(v) == v.k \in {"undef", "null"}     \* val == null

OptKeys == {"a", "b", "port", "opt", "list", "version"}

(***************************************************************************)
(* Option descriptors.  The Option class (lib/option.ts) is not among the  *)
(* sources; a descriptor carries the fields command.ts reads from it.      *)
(* short and long are sequences of at most one token (absent or present).  *)
(***************************************************************************)
MkOption(flags, short, long, name, kind) ==
  [flags |-> flags, short |-> short, long |-> long, name |-> name, key |-> name,
   required |-> (kind = "required"), optional |-> (kind = "optional"),
   variadic |-> FALSE, mandatory |-> FALSE, negate |-> FALSE,
   defaultValue |-> Undef, presetArg |-> Undef, envVar |-> "",
   conflictsWith |-> {}, implied |-> <<>>, parseArg |-> "none",
   listener |-> "value"]

OptA == MkOption("-a", <<T_a>>, <<>>, "a", "boolean")
OptB == MkOption("-b", <<T_b>>, <<>>, "b", "boolean")
OptPort == MkOption("-p, --port <n>", <<T_p>>, <<T_port>>, "port", "required")
OptOpt == MkOption("-o, --opt [v]", <<T_o>>, <<T_opt>>, "opt", "optional")
OptList == [MkOption("-l, --list <v...>", <<T_l>>, <<T_list>>, "list", "required")
              EXCEPT !.variadic = TRUE]
\* the option Command.version registers: its listener is not the value listener
OptVersion == [MkOption("-V, --version", <<T_V>>, <<T_version>>, "version", "boolean")
                 EXCEPT !.listener = "version"]
\* the lazily created help option: it is never in this.options
OptHelp == MkOption("-h, --help", <<T_h>>, <<T_helpflag>>, "help", "boolean")

\* Option.is
OptionIs(option, arg) == option.short = <<arg>> \/ option.long = <<arg>>

\* Option.isBoolean
OptionIsBoolean(option) == ~option.required /\ ~option.optional /\ ~option.negate

\* Option._collectValue
OptionCollectValue(option, value, previous, ep) ==
  IF previous = option.defaultValue \/ previous.k # "list"
  THEN List(<<value.s>>, ep)
  ELSE List(Append(previous.l, value.s), ep)

(***************************************************************************)
(* Errors and messages.                                                    *)
(***************************************************************************)
NoMsg == [t |-> "", n |-> "", n2 |-> "", tk |-> <<>>, expected |-> 0, got |-> 0]
Msg(t) == [NoMsg EXCEPT !.t = t]

\* new CommanderError(exitCode, code, message)
CommanderError(exitCode, code, message) ==
  [class |-> "CommanderError", exitCode |-> exitCode, code |-> code, message |-> message]
NoErr == [class |-> "", exitCode |-> 0, code |-> "", message |-> NoMsg]
\* the error a custom exit callback of the application throws
CustomError == CommanderError(123, "custom-code", Msg("custom-message"))
\* an error thrown by application code (a hook, an action, a parseArg)
UserError(what) == [class |-> "Error", exitCode |-> 0, code |-> "", message |-> Msg(what)]

(***************************************************************************)
(* The observable effects of a parse, in order: a history variable.        *)
(***************************************************************************)
NoEv == [e |-> "", c |-> "", c2 |-> "", n |-> "", code |-> "", x |-> 0, tk |-> <<>>,
         toks |-> <<>>, toks2 |-> <<>>, v |-> Undef, m |-> NoMsg, at |-> 0]
Ev(e, c) == [NoEv EXCEPT !.e = e, !.c = c]

(***************************************************************************)
(* Command objects.                                                        *)
(***************************************************************************)
CmdIds == {"prog", "serve", "leaf"}
NoCmd == "none"

NoHooks == [preSubcommand |-> <<>>, preAction |-> <<>>, postAction |-> <<>>]
NoSaved == [saved |-> FALSE, name |-> <<>>,
            optionValues |-> [k \in OptKeys |-> Undef],
            optionValueSources |-> [k \in OptKeys |-> "none"]]

\* new Command(name)
NewCommand(name) ==
  [name |-> name, aliases |-> <<>>, commands |-> <<>>, parent |-> NoCmd,
   options |-> <<>>, registeredArguments |-> <<>>,
   allowUnknownOption |-> FALSE, allowExcessArguments |-> FALSE,
   enablePositionalOptions |-> FALSE, passThroughOptions |-> FALSE,
   combineFlagAndOptionalValue |-> TRUE, storeOptionsAsProperties |-> FALSE,
   actionHandler |-> "none", executableHandler |-> FALSE,
   defaultCommandName |-> <<>>, exitCallback |-> "none",
   lifeCycleHooks |-> NoHooks, showHelpAfterError |-> "false",
   helpOption |-> <<OptHelp>>, addImplicitHelpCommand |-> "undef",
   helpCommandName |-> T_help, legacyListener |-> FALSE, starListener |-> FALSE,
   version |-> <<>>,
   optionValues |-> [k \in OptKeys |-> Undef],
   optionValueSources |-> [k \in OptKeys |-> "none"],
   args |-> <<>>, argsEpoch |-> 0, processedArgs |-> <<>>, rawArgs |-> <<>>,
   savedState |-> NoSaved, runningCommand |-> <<>>]

(***************************************************************************)
(* The program state.                                                      *)
(***************************************************************************)
VARIABLES
  cmds,      \* the Command objects, by identity
  env,       \* process.env (the names that are set) and process.exitCode
  log,       \* the observable effects of the current parse, in order
  status,    \* "idle", "running", "pending", "done", "thrown", "rejected", "exited"
  err,       \* the error thrown to the caller, or the rejection
  promise,   \* the promise chain: "none", "pending", "fulfilled"
  awaiting,  \* the step whose promise the chain waits for
  thens,     \* the callbacks chained with then(), in order
  epoch,     \* the number of parse() calls so far
  argv,      \* the user arguments of the current call
  prevArgv,  \* the user arguments of the call before it
  parsed,    \* what a direct call of parseOptions returned
  calls      \* the number of parse() calls the application still makes

vars ==
  <<cmds, env, log, status, err, promise, awaiting, thens, epoch, argv, prevArgv, parsed,
    calls>>

\* The state as one record, as the operators below thread it.
World == [cmds |-> cmds, env |-> env, log |-> log, status |-> status, err |-> err,
          promise |-> promise, awaiting |-> awaiting, thens |-> thens,
          epoch |-> epoch]

Running(w) == w.status = "running"

\* F applied to the state a call left, unless that call ended the run (it threw, or
\* the process exited): the statements after it are not reached
Then(w, F(_)) == IF Running(w) THEN F(w) ELSE w

LogEv(w, ev) == [w EXCEPT !.log = Append(@, ev)]

\* process.exit(exitCode)
ProcessExit(w, exitCode) ==
  [LogEv(w, [Ev("process.exit", "") EXCEPT !.x = exitCode]) EXCEPT !.status = "exited"]

\* throw e
Throw(w, e) == [w EXCEPT !.status = "thrown", !.err = e]

\* Command.getOptionValue
getOptionValue(w, c, key) == w.cmds[c].optionValues[key]

\* Command.getOptionValueSource; "none" stands for undefined
getOptionValueSource(w, c, key) == w.cmds[c].optionValueSources[key]

\* Command.setOptionValueWithSource
setOptionValueWithSource(w, c, key, value, source) ==
  [w EXCEPT !.cmds[c].optionValues[key] = value,
            !.cmds[c].optionValueSources[key] = source]

\* Command._getCommandAndAncestors
RECURSIVE _getCommandAndAncestors(_, _)
_getCommandAndAncestors(w, c) ==
  IF w.cmds[c].parent = NoCmd
  THEN <<c>>
  ELSE <<c>> \o _getCommandAndAncestors(w, w.cmds[c].parent)

\* the first index of a sequence that satisfies a test, 0 when none (Array.find)
FindIndex(seq, Test(_)) ==
  IF \E k \in 1..Len(seq) : Test(seq[k])
  THEN CHOOSE k \in 1..Len(seq) : Test(seq[k]) /\ \A j \in 1..(k - 1) : ~Test(seq[j])
  ELSE 0

\* a lookup of a child by its name only
findCommandByName(w, c, name) ==
  IF name = <<>>
  THEN <<>>
  ELSE LET Match(id) == w.cmds[id].name = name
           k == FindIndex(w.cmds[c].commands, Match)
       IN IF k = 0 THEN <<>> ELSE <<w.cmds[c].commands[k]>>

\* Command._findCommand: the identity of the child in a sequence of 0 or 1
_findCommand(w, c, name) ==
  IF name = <<>>
  THEN <<>>
  ELSE LET Match(id) == \/ w.cmds[id].name = name
                        \/ \E k \in 1..Len(w.cmds[id].aliases) : w.cmds[id].aliases[k] = name
           k == FindIndex(w.cmds[c].commands, Match)
       IN IF k = 0 THEN <<>> ELSE <<w.cmds[c].commands[k]>>

\* Command._findOption: the option in a sequence of 0 or 1
_findOption(w, c, arg) ==
  LET Match(o) == OptionIs(o, arg)
      k == FindIndex(w.cmds[c].options, Match)
  IN IF k = 0 THEN <<>> ELSE <<w.cmds[c].options[k]>>

\* Command._getHelpCommand, as the name of the help command (a sequence of 0 or 1)
_getHelpCommand(w, c) ==
  LET cmd == w.cmds[c]
      hasImplicitHelpCommand ==
        IF cmd.addImplicitHelpCommand # "undef"
        THEN cmd.addImplicitHelpCommand = "true"
        ELSE /\ Len(cmd.commands) # 0
             /\ cmd.actionHandler = "none"
             /\ _findCommand(w, c, T_help) = <<>>
  IN IF hasImplicitHelpCommand THEN <<cmd.helpCommandName>> ELSE <<>>

\* Command.outputHelp
outputHelp(w, c, error) ==
  LogEv(w, [Ev("outputHelp", c) EXCEPT !.n = IF error THEN "writeErr" ELSE "writeOut"])

\* a terminator that ends the process without asking the exit callback
exitIgnoringCallback(w, c, exitCode, code, message) ==
  ProcessExit(LogEv(w, [Ev("_exit", c) EXCEPT !.x = exitCode, !.code = code, !.m = message]),
              exitCode)

\* Command._exit
_exit(w, c, exitCode, code, message) ==
  LET cb == w.cmds[c].exitCallback
      e == CommanderError(exitCode, code, message)
      w0 == LogEv(w, [Ev("_exit", c) EXCEPT !.x = exitCode, !.code = code, !.m = message])
      called == LogEv(w0, [Ev("exitCallback", c) EXCEPT !.x = exitCode, !.code = code,
                                                      !.m = message])
  IN CASE cb = "none" -> ProcessExit(w0, exitCode)
       [] cb = "default" ->
            IF code # "commander.executeSubCommandAsync"
            THEN Throw(called, e)
            ELSE ProcessExit(called, exitCode)
       [] cb = "throws" -> Throw(called, CustomError)
       [] OTHER -> ProcessExit(called, exitCode)

\* an error funnel that does not write the message
errorUnwritten(w, c, message, exitCode, code) ==
  _exit(w, c, IF exitCode = 0 THEN 1 ELSE exitCode,
        IF code = "" THEN "commander.error" ELSE code, message)

\* Command.error; exitCode 0 and code "" stand for an absent errorOptions entry
error(w, c, message, exitCode, code) ==
  LET w1 == LogEv(w, [Ev("outputError", c) EXCEPT !.m = message])
      w2 == CASE w.cmds[c].showHelpAfterError = "text" -> LogEv(w1, Ev("writeErr", c))
              [] w.cmds[c].showHelpAfterError = "true" ->
                   outputHelp(LogEv(w1, Ev("writeErr", c)), c, TRUE)
              [] OTHER -> w1
  IN _exit(w2, c, IF exitCode = 0 THEN 1 ELSE exitCode,
          IF code = "" THEN "commander.error" ELSE code, message)

\* a help that exits with process.exitCode even when it is rendered as an error
helpIgnoringError(w, c, isError) ==
  _exit(outputHelp(w, c, isError), c, w.env.exitCode, "commander.help", Msg("(outputHelp)"))

\* Command.help
help(w, c, isError) ==
  LET w1 == outputHelp(w, c, isError)
      exitCode == IF w.env.exitCode = 0 /\ isError THEN 1 ELSE w.env.exitCode
  IN _exit(w1, c, exitCode, "commander.help", Msg("(outputHelp)"))

\* a help on request that exits with process.exitCode
outputHelpIfRequestedWithExitCode(w, c, args) ==
  LET helpOption == w.cmds[c].helpOption
      helpRequested == /\ helpOption # <<>>
                       /\ \E k \in 1..Len(args) : OptionIs(helpOption[1], args[k])
  IN IF helpRequested
     THEN _exit(outputHelp(w, c, FALSE), c, w.env.exitCode, "commander.helpDisplayed",
                Msg("(outputHelp)"))
     ELSE w

\* Command._outputHelpIfRequested
_outputHelpIfRequested(w, c, args) ==
  LET helpOption == w.cmds[c].helpOption
      helpRequested == /\ helpOption # <<>>
                       /\ \E k \in 1..Len(args) : OptionIs(helpOption[1], args[k])
  IN IF helpRequested
     THEN _exit(outputHelp(w, c, FALSE), c, 0, "commander.helpDisplayed", Msg("(outputHelp)"))
     ELSE w

\* a report of the missing argument that lets the scan go on
optionMissingArgumentSilent(w, c, option) == w

\* Command.optionMissingArgument
optionMissingArgument(w, c, option) ==
  error(w, c, [Msg("error: option '<flags>' argument missing") EXCEPT !.n = option.flags],
        0, "commander.optionMissingArgument")

\* the error the parseArg of the application throws: new InvalidArgumentError(message)
\* ("invalid"), an error with the code commander.invalidArgument and the exit code 2
\* ("invalid2") or 0 ("invalid0"), or new Error("custom")
ParseArgError(parseArg) ==
  CASE parseArg = "invalid" ->
         CommanderError(1, "commander.invalidArgument", Msg("transform message"))
    [] parseArg = "invalid2" ->
         CommanderError(2, "commander.invalidArgument", Msg("transform message"))
    [] parseArg = "invalid0" ->
         CommanderError(0, "commander.invalidArgument", Msg("transform message"))
    [] OTHER -> UserError("custom")

\* a _callParseArg without the catch: every error of the parseArg is thrown on
callParseArgUncaught(w, c, target, value, previous, invalidArgumentMessage) ==
  CASE target.parseArg = "none" -> [w |-> w, v |-> value]
    [] target.parseArg = "ok" -> [w |-> w, v |-> Parsed(value.s, w.epoch)]
    [] OTHER ->
         [w |-> Throw(LogEv(w, [Ev("parseArgThrew", c)
                                  EXCEPT !.x = ParseArgError(target.parseArg).exitCode,
                                         !.code = ParseArgError(target.parseArg).code]),
                      ParseArgError(target.parseArg)),
          v |-> Undef]

\* Command._callParseArg: the new state and the value returned; the throw of the
\* parseArg is kept in the history
_callParseArg(w, c, target, value, previous, invalidArgumentMessage) ==
  CASE target.parseArg = "none" -> [w |-> w, v |-> value]
    [] target.parseArg = "ok" -> [w |-> w, v |-> Parsed(value.s, w.epoch)]
    [] ParseArgError(target.parseArg).code = "commander.invalidArgument" ->
         [w |-> error(LogEv(w, [Ev("parseArgThrew", c)
                                  EXCEPT !.x = ParseArgError(target.parseArg).exitCode,
                                         !.code = "commander.invalidArgument"]),
                      c,
                      [invalidArgumentMessage
                         EXCEPT !.n2 = ParseArgError(target.parseArg).message.t],
                      ParseArgError(target.parseArg).exitCode,
                      ParseArgError(target.parseArg).code),
          v |-> Undef]
    [] OTHER -> [w |-> Throw(LogEv(w, Ev("parseArgThrew", c)),
                             ParseArgError(target.parseArg)),
                 v |-> Undef]

\* the end of handleOptionValue: missing values are filled in and the value is stored
storeOptionValue(r, c, option, valueSource) ==
  LET val == IF IsNullish(r.v)
             THEN IF option.negate
                  THEN Bool(FALSE, r.w.epoch)
                  ELSE IF OptionIsBoolean(option) \/ option.optional
                       THEN Bool(TRUE, r.w.epoch)
                       ELSE Str(<<>>, r.w.epoch)
             ELSE r.v
  IN IF Running(r.w)
     THEN setOptionValueWithSource(r.w, c, option.key, val, valueSource)
     ELSE r.w

\* the listener Command.addOption registers for "option:<name>" (handleOptionValue)
handleOptionValue(w, c, option, val, invalidValueMessage, valueSource) ==
  LET val1 == IF IsNullish(val) /\ option.presetArg.k # "undef" THEN option.presetArg ELSE val
      oldValue == getOptionValue(w, c, option.key)
  IN storeOptionValue(
       IF val1.k # "null" /\ option.parseArg # "none"
       THEN _callParseArg(w, c, option, val1, oldValue, invalidValueMessage)
       ELSE IF val1.k # "null" /\ option.variadic
            THEN [w |-> w, v |-> OptionCollectValue(option, val1, oldValue, w.epoch)]
            ELSE [w |-> w, v |-> val1],
       c, option, valueSource)

\* the listener Command.version registers for "option:<name>"
versionListener(w, c) ==
  _exit(LogEv(w, Ev("writeOut", c)), c, 0, "commander.version", Msg("<version>"))

\* this.emit(`option:${option.name()}`, val): the listeners run synchronously
emitOption(w, c, option, val) ==
  LET w1 == LogEv(w, [Ev("option", c) EXCEPT !.n = option.name, !.v = val])
  IN IF option.listener = "version"
     THEN versionListener(w1, c)
     ELSE handleOptionValue(w1, c, option, val,
            [Msg("error: option '<flags>' argument '<val>' is invalid.")
               EXCEPT !.n = option.flags, !.tk = val.s], "cli")

(***************************************************************************)
(* Command.parseOptions.  The state of its loop is a record: the program   *)
(* state w, the index i of the next token (0-based, as in the code), the   *)
(* group of short flags being worked through, the variadic option being    *)
(* collected, the destination of plain tokens, and the two results.  The   *)
(* history fields record the scan: scanned is the set of positions         *)
(* (1-based) of the tokens the loop head fetched, switched is the position *)
(* of the token at which dest became unknown (0: never), before holds the  *)
(* values and sources at the last fetch, and every effect logged during an *)
(* iteration carries in its field at the position of the token at work.    *)
(***************************************************************************)
\* a test that takes a lone dash for an option
maybeOptionAnyDash(arg) == Len(arg) >= 1 /\ arg[1] = "-"

\* maybeOption
maybeOption(arg) == Len(arg) > 1 /\ arg[1] = "-"

\* a test that takes only -<digits> for a negative number
negativeNumberArgIntegersOnly(w, c, arg) ==
  LET anc == _getCommandAndAncestors(w, c)
  IN /\ Len(arg) >= 2
     /\ arg[1] = "-"
     /\ AllDigits(SubSeq(arg, 2, Len(arg)))
     /\ ~\E k \in 1..Len(anc) :
           \E j \in 1..Len(w.cmds[anc[k]].options) :
             LET short == w.cmds[anc[k]].options[j].short
             IN short # <<>> /\ DigitShortFlag(short[1])

\* negativeNumberArg
negativeNumberArg(w, c, arg) ==
  LET anc == _getCommandAndAncestors(w, c)
  IN /\ NegativeNumberPattern(arg)
     /\ ~\E k \in 1..Len(anc) :
           \E j \in 1..Len(w.cmds[anc[k]].options) :
             LET short == w.cmds[anc[k]].options[j].short
             IN short # <<>> /\ DigitShortFlag(short[1])

\* args.slice(i)
Slice(args, i) == SubSeq(args, i + 1, Len(args))

\* dest.push(...toks)
Push(s, toks) ==
  IF s.dest = "operands"
  THEN [s EXCEPT !.operands = @ \o toks]
  ELSE [s EXCEPT !.unknown = @ \o toks]

\* a literal "--" that is never itself kept
poLiteralDrop(args, s, arg) ==
  [Push(s, Slice(args, s.i)) EXCEPT !.done = TRUE]

\* the literal "--"
poLiteral(args, s, arg) ==
  LET s1 == IF s.dest = "unknown" THEN Push(s, <<arg>>) ELSE s
  IN [Push(s1, Slice(args, s.i)) EXCEPT !.done = TRUE]

\* a recognised option: the listener assigns the value
poRecognised(c, args, s, option) ==
  LET w == s.w
      next == IF s.i < Len(args) THEN <<args[s.i + 1]>> ELSE <<>>
      takesNext == /\ next # <<>>
                   /\ (~maybeOption(next[1]) \/ negativeNumberArg(w, c, next[1]))
      emitNext(v) == emitOption(v, c, option,
                                IF next = <<>> THEN Undef ELSE Str(next[1], v.epoch))
      s1 == IF option.required
            THEN [s EXCEPT !.w = Then(IF next = <<>>
                                      THEN optionMissingArgument(w, c, option)
                                      ELSE w,
                                      emitNext),
                           !.i = @ + 1]
            ELSE IF option.optional
                 THEN IF takesNext
                      THEN [s EXCEPT !.w = emitNext(w), !.i = @ + 1]
                      ELSE [s EXCEPT !.w = emitOption(w, c, option, Null)]
                 ELSE [s EXCEPT !.w = emitOption(w, c, option, Undef)]
  IN [s1 EXCEPT !.activeVariadicOption = IF option.variadic THEN <<option>> ELSE <<>>]

\* a group of which only the first flag is taken
poComboFirstOnly(c, s, arg, option) ==
  [s EXCEPT !.w = emitOption(s.w, c, option, Undef)]

\* a group of which the rest is kept without the dash put before it again
poComboBareRest(c, s, arg, option) ==
  LET w == s.w
      rest == SubSeq(arg, 3, Len(arg))
  IN IF option.required \/ (option.optional /\ w.cmds[c].combineFlagAndOptionalValue)
     THEN [s EXCEPT !.w = emitOption(w, c, option, Str(rest, w.epoch))]
     ELSE [s EXCEPT !.w = emitOption(w, c, option, Undef),
                    !.activeGroup = <<rest>>]

\* a group of short flags following a single dash: eat the first one
poCombo(c, s, arg, option) ==
  LET w == s.w
      rest == SubSeq(arg, 3, Len(arg))
  IN IF option.required \/ (option.optional /\ w.cmds[c].combineFlagAndOptionalValue)
     THEN [s EXCEPT !.w = emitOption(w, c, option, Str(rest, w.epoch))]
     ELSE [s EXCEPT !.w = emitOption(w, c, option, Undef),
                    !.activeGroup = <<(<<"-">> \o rest)>>]

\* the unrecognised token without the stop that passThroughOptions asks for
poUnrecognisedScanningOn(c, args, s, arg) ==
  LET w == s.w
      cmd == w.cmds[c]
      s1 == IF /\ s.dest = "operands"
               /\ maybeOption(arg)
               /\ ~(Len(cmd.commands) = 0 /\ negativeNumberArg(w, c, arg))
            THEN [s EXCEPT !.dest = "unknown"]
            ELSE s
      positional == /\ (cmd.enablePositionalOptions \/ cmd.passThroughOptions)
                    /\ Len(s1.operands) = 0
                    /\ Len(s1.unknown) = 0
      helpCommand == _getHelpCommand(w, c)
  IN IF positional /\ _findCommand(w, c, arg) # <<>>
     THEN [s1 EXCEPT !.operands = Append(@, arg), !.unknown = @ \o Slice(args, s.i),
                     !.done = TRUE]
     ELSE IF positional /\ helpCommand # <<>> /\ arg = helpCommand[1]
     THEN [s1 EXCEPT !.operands = @ \o <<arg>> \o Slice(args, s.i), !.done = TRUE]
     ELSE IF positional /\ cmd.defaultCommandName # <<>>
     THEN [s1 EXCEPT !.unknown = @ \o <<arg>> \o Slice(args, s.i), !.done = TRUE]
     ELSE Push(s1, <<arg>>)

\* not an option of this command: an operand, or the start of the unknown
poUnrecognised(c, args, s, arg) ==
  LET w == s.w
      cmd == w.cmds[c]
      s1 == IF /\ s.dest = "operands"
               /\ maybeOption(arg)
               /\ ~(Len(cmd.commands) = 0 /\ negativeNumberArg(w, c, arg))
            THEN [s EXCEPT !.dest = "unknown"]
            ELSE s
      positional == /\ (cmd.enablePositionalOptions \/ cmd.passThroughOptions)
                    /\ Len(s1.operands) = 0
                    /\ Len(s1.unknown) = 0
      helpCommand == _getHelpCommand(w, c)
  IN IF positional /\ _findCommand(w, c, arg) # <<>>
     THEN [s1 EXCEPT !.operands = Append(@, arg), !.unknown = @ \o Slice(args, s.i),
                     !.done = TRUE]
     ELSE IF positional /\ helpCommand # <<>> /\ arg = helpCommand[1]
     THEN [s1 EXCEPT !.operands = @ \o <<arg>> \o Slice(args, s.i), !.done = TRUE]
     ELSE IF positional /\ cmd.defaultCommandName # <<>>
     THEN [s1 EXCEPT !.unknown = @ \o <<arg>> \o Slice(args, s.i), !.done = TRUE]
     ELSE IF cmd.passThroughOptions
     THEN [Push(s1, <<arg>> \o Slice(args, s.i)) EXCEPT !.done = TRUE]
     ELSE Push(s1, <<arg>>)

\* the body of the while loop
parseOptionsBody(c, args, s) ==
  LET arg == IF s.activeGroup # <<>> THEN s.activeGroup[1] ELSE args[s.i + 1]
      s0 == [s EXCEPT !.activeGroup = <<>>,
                      !.i = IF s.activeGroup # <<>> THEN @ ELSE @ + 1]
      w == s.w
      s1 == [s0 EXCEPT !.activeVariadicOption = <<>>]
      option == IF maybeOption(arg) THEN _findOption(w, c, arg) ELSE <<>>
      isCombo == Len(arg) > 2 /\ arg[1] = "-" /\ arg[2] # "-"
      comboOption == IF isCombo THEN _findOption(w, c, <<"-", arg[2]>>) ELSE <<>>
      index == IndexOfEq(arg)
      longOption == IF LongFlagWithValue(arg)
                    THEN _findOption(w, c, SubSeq(arg, 1, index - 1))
                    ELSE <<>>
  IN IF arg = T_dd
     THEN poLiteral(args, s0, arg)
     ELSE IF /\ s0.activeVariadicOption # <<>>
             /\ (~maybeOption(arg) \/ negativeNumberArg(w, c, arg))
     THEN [s0 EXCEPT !.w = emitOption(w, c, s0.activeVariadicOption[1], Str(arg, w.epoch))]
     ELSE IF option # <<>>
     THEN poRecognised(c, args, s1, option[1])
     ELSE IF comboOption # <<>>
     THEN poCombo(c, s1, arg, comboOption[1])
     ELSE IF longOption # <<>> /\ (longOption[1].required \/ longOption[1].optional)
     THEN [s1 EXCEPT !.w = emitOption(w, c, longOption[1],
                                      Str(SubSeq(arg, index + 1, Len(arg)), w.epoch))]
     ELSE poUnrecognised(c, args, s1, arg)

\* one iteration of the while loop, with the history fields brought up to date
parseOptionsStep(c, args, s) ==
  LET fetched == s.activeGroup = <<>>
      pos == IF fetched THEN s.i + 1 ELSE s.i
      r == parseOptionsBody(c, args, s)
  IN [r EXCEPT !.w.log = [k \in 1..Len(@) |->
                            IF k > Len(s.w.log) THEN [@[k] EXCEPT !.at = pos] ELSE @[k]],
               !.scanned = IF fetched THEN @ \cup {pos} ELSE @,
               !.switched = IF s.dest = "operands" /\ r.dest = "unknown" THEN pos ELSE @,
               !.before = IF fetched
                          THEN [optionValues |-> s.w.cmds[c].optionValues,
                                optionValueSources |-> s.w.cmds[c].optionValueSources]
                          ELSE @]

\* while (i < args.length || activeGroup); a termination inside a listener ends it
RECURSIVE parseOptionsLoop(_, _, _)
parseOptionsLoop(c, args, s) ==
  IF s.done \/ ~Running(s.w) \/ ~(s.i < Len(args) \/ s.activeGroup # <<>>)
  THEN s
  ELSE parseOptionsLoop(c, args, parseOptionsStep(c, args, s))

\* return { operands, unknown }, with the state and the history of the scan
parseOptionsResult(s) ==
  [w |-> s.w, operands |-> s.operands, unknown |-> s.unknown,
   scanned |-> s.scanned, switched |-> s.switched, before |-> s.before]

\* Command.parseOptions: the new state, operands and unknown
parseOptions(w, c, args) ==
  parseOptionsResult(
    parseOptionsLoop(c, args,
      [w |-> w, i |-> 0, activeGroup |-> <<>>, activeVariadicOption |-> <<>>,
       dest |-> "operands", operands |-> <<>>, unknown |-> <<>>, done |-> FALSE,
       scanned |-> {}, switched |-> 0,
       before |-> [optionValues |-> w.cmds[c].optionValues,
                   optionValueSources |-> w.cmds[c].optionValueSources]]))

(***************************************************************************)
(* Values from the environment and implied values.                         *)
(***************************************************************************)
T_envval == <<"e", "n", "v">>

\* Command._parseOptionsEnv, from option number k on
RECURSIVE parseOptionsEnvFrom(_, _, _)
parseOptionsEnvFrom(w, c, k) ==
  IF k > Len(w.cmds[c].options) \/ ~Running(w)
  THEN w
  ELSE LET option == w.cmds[c].options[k]
           source == getOptionValueSource(w, c, option.key)
           applies == /\ option.envVar # ""
                      /\ option.envVar \in w.env.vars
                      /\ \/ getOptionValue(w, c, option.key).k = "undef"
                         \/ source \in {"default", "config", "env"}
           message == [Msg("error: option '<flags>' value '<val>' from env '<envVar>' is invalid.")
                         EXCEPT !.n = option.flags, !.tk = T_envval]
           w1 == IF ~applies
                 THEN w
                 ELSE IF option.required \/ option.optional
                      THEN handleOptionValue(w, c, option, Str(T_envval, w.epoch), message, "env")
                      ELSE handleOptionValue(w, c, option, Undef, message, "env")
       IN parseOptionsEnvFrom(w1, c, k + 1)

\* Command._parseOptionsEnv
_parseOptionsEnv(w, c) == parseOptionsEnvFrom(w, c, 1)

\* DualOptions.valueFromOption (lib/option.ts)
DualValueFromOption(options, value, option) ==
  LET Negative(k) == options[k].negate /\ options[k].key = option.key
      Positive(k) == ~options[k].negate /\ options[k].key = option.key
      dual == (\E k \in 1..Len(options) : Negative(k)) /\ (\E k \in 1..Len(options) : Positive(k))
      preset == options[CHOOSE k \in 1..Len(options) : Negative(k)].presetArg
      negativeValue == IF preset.k # "undef" THEN preset ELSE Bool(FALSE, 0)
  IN IF ~dual
     THEN TRUE
     ELSE option.negate = (negativeValue.k = value.k /\ negativeValue.b = value.b
                           /\ negativeValue.s = value.s)

\* hasCustomOptionValue of Command._parseOptionsImplied
hasCustomOptionValue(w, c, optionKey) ==
  /\ getOptionValue(w, c, optionKey).k # "undef"
  /\ getOptionValueSource(w, c, optionKey) \notin {"default", "implied"}

\* the implied values of one option, from entry number j on
RECURSIVE applyImplied(_, _, _, _)
applyImplied(w, c, implied, j) ==
  IF j > Len(implied)
  THEN w
  ELSE applyImplied(
         IF hasCustomOptionValue(w, c, implied[j].key)
         THEN w
         ELSE setOptionValueWithSource(w, c, implied[j].key,
                                       [implied[j].value EXCEPT !.ep = w.epoch], "implied"),
         c, implied, j + 1)

\* the forEach of Command._parseOptionsImplied over the options selected at the start
RECURSIVE parseOptionsImpliedFrom(_, _, _, _)
parseOptionsImpliedFrom(w, c, selected, k) ==
  IF k > Len(w.cmds[c].options)
  THEN w
  ELSE parseOptionsImpliedFrom(
         IF k \in selected THEN applyImplied(w, c, w.cmds[c].options[k].implied, 1) ELSE w,
         c, selected, k + 1)

\* Command._parseOptionsImplied
_parseOptionsImplied(w, c) ==
  LET options == w.cmds[c].options
      selected == {k \in 1..Len(options) :
                     /\ options[k].implied # <<>>
                     /\ hasCustomOptionValue(w, c, options[k].key)
                     /\ DualValueFromOption(options, getOptionValue(w, c, options[k].key),
                                            options[k])}
  IN parseOptionsImpliedFrom(w, c, selected, 1)

(***************************************************************************)
(* The validation pass.                                                    *)
(***************************************************************************)
\* Command.missingMandatoryOptionValue
missingMandatoryOptionValue(w, c, option) ==
  error(w, c, [Msg("error: required option '<flags>' not specified") EXCEPT !.n = option.flags],
        0, "commander.missingMandatoryOptionValue")

\* the pairs <<command, option number>> in the order the two forEach visit them
RECURSIVE OptionWalk(_, _, _)
OptionWalk(w, anc, k) ==
  IF k > Len(anc)
  THEN <<>>
  ELSE [j \in 1..Len(w.cmds[anc[k]].options) |-> <<anc[k], j>>] \o OptionWalk(w, anc, k + 1)

\* a check of the mandatory options of the command itself only
checkForMissingMandatoryOwnOptions(w, c) ==
  LET walk == OptionWalk(w, <<c>>, 1)
      Missing(p) == LET anOption == w.cmds[p[1]].options[p[2]]
                    IN anOption.mandatory /\ getOptionValue(w, p[1], anOption.key).k = "undef"
      k == FindIndex(walk, Missing)
  IN IF k = 0
     THEN w
     ELSE missingMandatoryOptionValue(w, walk[k][1], w.cmds[walk[k][1]].options[walk[k][2]])

\* Command._checkForMissingMandatoryOptions
_checkForMissingMandatoryOptions(w, c) ==
  LET walk == OptionWalk(w, _getCommandAndAncestors(w, c), 1)
      Missing(p) == LET anOption == w.cmds[p[1]].options[p[2]]
                    IN anOption.mandatory /\ getOptionValue(w, p[1], anOption.key).k = "undef"
      k == FindIndex(walk, Missing)
  IN IF k = 0
     THEN w
     ELSE missingMandatoryOptionValue(w, walk[k][1], w.cmds[walk[k][1]].options[walk[k][2]])

\* findBestOptionFromValue of Command._conflictingOption
findBestOptionFromValue(w, c, option) ==
  LET options == w.cmds[c].options
      optionValue == getOptionValue(w, c, option.key)
      IsNeg(o) == o.negate /\ o.key = option.key
      IsPos(o) == ~o.negate /\ o.key = option.key
      n == FindIndex(options, IsNeg)
      p == FindIndex(options, IsPos)
      negativeOption == options[n]
  IN IF /\ n # 0
        /\ \/ negativeOption.presetArg.k = "undef" /\ optionValue.k = "bool" /\ ~optionValue.b
           \/ /\ negativeOption.presetArg.k # "undef"
              /\ optionValue.k = negativeOption.presetArg.k
              /\ optionValue.s = negativeOption.presetArg.s
     THEN negativeOption
     ELSE IF p # 0 THEN options[p] ELSE option

\* getErrorMessage of Command._conflictingOption
conflictName(w, c, option) ==
  LET bestOption == findBestOptionFromValue(w, c, option)
  IN IF getOptionValueSource(w, c, bestOption.key) = "env"
     THEN bestOption.envVar
     ELSE bestOption.flags

\* Command._conflictingOption
_conflictingOption(w, c, option, conflictingOption) ==
  error(w, c, [Msg("error: <option> cannot be used with <option>")
                 EXCEPT !.n = conflictName(w, c, option),
                        !.n2 = conflictName(w, c, conflictingOption)],
        0, "commander.conflictingOption")

\* a check that lets default values take part in a conflict
checkForConflictingLocalOptionsWithDefaults(w, c) ==
  LET options == w.cmds[c].options
      Defined(o) == getOptionValue(w, c, o.key).k # "undef"
      Conflicting(o, d) == Defined(d) /\ d.key \in o.conflictsWith
      HasConflict(o) == /\ Defined(o)
                        /\ o.conflictsWith # {}
                        /\ \E j \in 1..Len(options) : Conflicting(o, options[j])
      k == FindIndex(options, HasConflict)
      With(d) == Conflicting(options[k], d)
  IN IF k = 0
     THEN w
     ELSE _conflictingOption(w, c, options[k], options[FindIndex(options, With)])

\* Command._checkForConflictingLocalOptions
_checkForConflictingLocalOptions(w, c) ==
  LET options == w.cmds[c].options
      DefinedNonDefault(o) == /\ getOptionValue(w, c, o.key).k # "undef"
                              /\ getOptionValueSource(w, c, o.key) # "default"
      Conflicting(o, d) == DefinedNonDefault(d) /\ d.key \in o.conflictsWith
      HasConflict(o) == /\ DefinedNonDefault(o)
                        /\ o.conflictsWith # {}
                        /\ \E j \in 1..Len(options) : Conflicting(o, options[j])
      k == FindIndex(options, HasConflict)
      With(d) == Conflicting(options[k], d)
  IN IF k = 0
     THEN w
     ELSE _conflictingOption(w, c, options[k], options[FindIndex(options, With)])

\* Command._checkForConflictingOptions, from ancestor number k on
RECURSIVE checkForConflictingOptionsFrom(_, _, _)
checkForConflictingOptionsFrom(w, anc, k) ==
  IF k > Len(anc) \/ ~Running(w)
  THEN w
  ELSE checkForConflictingOptionsFrom(_checkForConflictingLocalOptions(w, anc[k]), anc, k + 1)

\* Command._checkForConflictingOptions
_checkForConflictingOptions(w, c) ==
  checkForConflictingOptionsFrom(w, _getCommandAndAncestors(w, c), 1)

\* Command.unknownOption
unknownOption(w, c, flag) ==
  IF w.cmds[c].allowUnknownOption
  THEN w
  ELSE error(w, c, [Msg("error: unknown option '<flag>'") EXCEPT !.tk = flag],
             0, "commander.unknownOption")

\* Command.unknownCommand
unknownCommand(w, c) ==
  error(w, c, [Msg("error: unknown command '<name>'")
                 EXCEPT !.tk = IF w.cmds[c].args = <<>> THEN <<>> ELSE w.cmds[c].args[1]],
        0, "commander.unknownCommand")

\* Command.missingArgument
missingArgument(w, c, name) ==
  error(w, c, [Msg("error: missing required argument '<name>'") EXCEPT !.n = name],
        0, "commander.missingArgument")

\* a check that reports excess arguments even when they are allowed
excessArgumentsAlways(w, c, receivedArgs) ==
  error(w, c, [Msg("error: too many arguments. Expected <n> but got <m>.")
                 EXCEPT !.expected = Len(w.cmds[c].registeredArguments),
                        !.got = Len(receivedArgs)],
        0, "commander.excessArguments")

\* Command._excessArguments
_excessArguments(w, c, receivedArgs) ==
  IF w.cmds[c].allowExcessArguments
  THEN w
  ELSE error(w, c, [Msg("error: too many arguments. Expected <n> but got <m>.")
                      EXCEPT !.expected = Len(w.cmds[c].registeredArguments),
                             !.got = Len(receivedArgs)],
             0, "commander.excessArguments")

\* a check that reports the last missing argument instead of the first
checkNumberOfArgumentsLast(w, c) ==
  LET cmd == w.cmds[c]
      registered == cmd.registeredArguments
      TooFew(i) == registered[i].required /\ i > Len(cmd.args)
      few == IF \E i \in 1..Len(registered) : TooFew(i)
             THEN CHOOSE i \in 1..Len(registered) :
                    TooFew(i) /\ \A j \in (i + 1)..Len(registered) : ~TooFew(j)
             ELSE 0
  IN IF few # 0
     THEN missingArgument(w, c, registered[few].name)
     ELSE IF Len(registered) > 0 /\ registered[Len(registered)].variadic
     THEN w
     ELSE IF Len(cmd.args) > Len(registered)
     THEN _excessArguments(w, c, cmd.args)
     ELSE w

\* Command._checkNumberOfArguments
_checkNumberOfArguments(w, c) ==
  LET cmd == w.cmds[c]
      registered == cmd.registeredArguments
      TooFew(i) == registered[i].required /\ i > Len(cmd.args)
      few == IF \E i \in 1..Len(registered) : TooFew(i)
             THEN CHOOSE i \in 1..Len(registered) :
                    TooFew(i) /\ \A j \in 1..(i - 1) : ~TooFew(j)
             ELSE 0
  IN IF few # 0
     THEN missingArgument(w, c, registered[few].name)
     ELSE IF Len(registered) > 0 /\ registered[Len(registered)].variadic
     THEN w
     ELSE IF Len(cmd.args) > Len(registered)
     THEN _excessArguments(w, c, cmd.args)
     ELSE w

(***************************************************************************)
(* Command-arguments.  A declared argument is a record of the fields of    *)
(* class Argument that command.ts reads.                                   *)
(***************************************************************************)
\* new Argument(name)
MkArgument(name, required, variadic) ==
  [name |-> name, required |-> required, variadic |-> variadic,
   defaultValue |-> Undef, parseArg |-> "none"]

\* myParseArg of Command._processArguments
myParseArg(w, c, argument, value, previous) ==
  IF argument.parseArg # "none"
  THEN _callParseArg(w, c, argument, value, previous,
         [Msg("error: command-argument value '<val>' is invalid for argument '<name>'.")
            EXCEPT !.n = argument.name, !.tk = value.s])
  ELSE [w |-> w, v |-> value]

\* values.reduce(myParseArg, defaultValue) over args[j..]
RECURSIVE reduceParseArg(_, _, _, _, _)
reduceParseArg(w, c, argument, j, processed) ==
  IF j > Len(w.cmds[c].args) \/ ~Running(w)
  THEN [w |-> w, v |-> processed]
  ELSE LET r == myParseArg(w, c, argument, Str(w.cmds[c].args[j], w.epoch), processed)
       IN reduceParseArg(r.w, c, argument, j + 1, r.v)

\* the forEach of Command._processArguments, from declared argument number k on
RECURSIVE processArgumentsFrom(_, _, _, _)
processArgumentsFrom(w, c, k, processedArgs) ==
  LET cmd == w.cmds[c]
  IN IF ~Running(w)
     THEN w
     ELSE IF k > Len(cmd.registeredArguments)
     THEN [w EXCEPT !.cmds[c].processedArgs = processedArgs]
     ELSE LET declaredArg == cmd.registeredArguments[k]
              r == IF declaredArg.variadic
                   THEN IF k <= Len(cmd.args)
                        THEN IF declaredArg.parseArg # "none"
                             THEN reduceParseArg(w, c, declaredArg, k, declaredArg.defaultValue)
                             ELSE [w |-> w,
                                   v |-> List(SubSeq(cmd.args, k, Len(cmd.args)), w.epoch)]
                        ELSE [w |-> w,
                              v |-> IF declaredArg.defaultValue.k = "undef"
                                    THEN List(<<>>, w.epoch)
                                    ELSE declaredArg.defaultValue]
                   ELSE IF k <= Len(cmd.args)
                        THEN myParseArg(w, c, declaredArg, Str(cmd.args[k], w.epoch),
                                        declaredArg.defaultValue)
                        ELSE [w |-> w, v |-> declaredArg.defaultValue]
          IN processArgumentsFrom(r.w, c, k + 1, Append(processedArgs, r.v))

\* Command._processArguments
_processArguments(w, c) ==
  Then(_checkNumberOfArguments(w, c), LAMBDA v : processArgumentsFrom(v, c, 1, <<>>))

(***************************************************************************)
(* State kept between calls of parse().                                    *)
(***************************************************************************)
\* Command.saveStateBeforeParse
saveStateBeforeParse(w, c) ==
  [w EXCEPT !.cmds[c].savedState =
     [saved |-> TRUE, name |-> w.cmds[c].name,
      optionValues |-> w.cmds[c].optionValues,
      optionValueSources |-> w.cmds[c].optionValueSources]]

\* a restore that leaves the command as the last parse left it
restoreNothing(w, c) == w

\* Command.restoreStateBeforeParse
restoreStateBeforeParse(w, c) ==
  IF w.cmds[c].storeOptionsAsProperties
  THEN Throw(w, UserError("Can not call parse again when storeOptionsAsProperties is true."))
  ELSE [w EXCEPT !.cmds[c].name = w.cmds[c].savedState.name,
                 !.cmds[c].rawArgs = <<>>,
                 !.cmds[c].optionValues = w.cmds[c].savedState.optionValues,
                 !.cmds[c].optionValueSources = w.cmds[c].savedState.optionValueSources,
                 !.cmds[c].args = <<>>,
                 !.cmds[c].argsEpoch = 0,
                 !.cmds[c].processedArgs = <<>>]

\* Command._prepareForParse
_prepareForParse(w, c) ==
  IF ~w.cmds[c].savedState.saved
  THEN saveStateBeforeParse(LogEv(w, Ev("prepare", c)), c)
  ELSE restoreStateBeforeParse(LogEv(w, Ev("prepare", c)), c)

(***************************************************************************)
(* The dispatch chain.  A step is a closure handed to _chainOrCall: a hook *)
(* callback, the action, the legacy parent event, or the dispatch into a   *)
(* subcommand.  Application callbacks are of a kind: "sync" returns        *)
(* undefined, "async" returns a promise, "throws" throws.  The chain of    *)
(* one run is the promise the innermost pending step returned and the      *)
(* callbacks queued behind it with then().                                 *)
(***************************************************************************)
NoStep == [k |-> "", c |-> "", sub |-> "", ev |-> "", id |-> "", kind |-> "",
           operands |-> <<>>, unknown |-> <<>>]

\* calling an application callback of the given kind
Invoke(w, id, kind) ==
  CASE kind = "async" ->
         [LogEv(w, [Ev("promise", "") EXCEPT !.n = id])
            EXCEPT !.promise = "pending", !.awaiting = id]
    [] kind = "throws" -> Throw(w, UserError(id))
    [] OTHER -> w

\* the null exit code of a child process that has not exited, or that a signal ended
NullCode == -1

\* subprocess.kill(signal) of the runtime: the signal is sent, and the process marked
\* killed, when the child has not ended yet
kill(w, c, signal) ==
  IF w.cmds[c].runningCommand[1].exited
    THEN w
    ELSE [LogEv(w, [Ev("kill", c) EXCEPT !.n = signal])
            EXCEPT !.cmds[c].runningCommand[1].killed = TRUE]

\* childProcess.spawn(...) and the handlers registered on the process
spawn(w, c, sub, args) ==
  [LogEv(w, [Ev("spawn", c) EXCEPT !.c2 = sub, !.toks = args, !.n = w.cmds[c].exitCallback])
     EXCEPT !.cmds[c].runningCommand =
              <<[sub |-> sub, exitCallback |-> w.cmds[c].exitCallback, closed |-> FALSE,
                 killed |-> FALSE, exitCode |-> NullCode, exited |-> FALSE]>>]

\* the handler _executeSubCommand registers with process.on(signal)
signalHandler(w, c, signal) ==
  LET proc == w.cmds[c].runningCommand[1]
  IN IF proc.killed = FALSE /\ proc.exitCode = NullCode THEN kill(w, c, signal) ELSE w

\* Command._executeSubCommand: the checks, the spawn, and the close handler it registers
_executeSubCommand(w, c, sub, args) ==
  Then(Then(_checkForMissingMandatoryOptions(w, c),
            LAMBDA v : _checkForConflictingOptions(v, c)),
       LAMBDA v : spawn(v, c, sub, args))

\* the close handler with the exit code passed on as it came: the null of a child a
\* signal ended is not replaced
closeHandlerRawCode(w, c, code) ==
  LET proc == w.cmds[c].runningCommand[1]
      w1 == LogEv([w EXCEPT !.cmds[c].runningCommand[1].closed = TRUE],
                  [Ev("close", c) EXCEPT !.x = code])
      called == LogEv(w1, [Ev("exitCallback", c)
                             EXCEPT !.x = code, !.code = "commander.executeSubCommandAsync",
                                    !.m = Msg("(close)")])
  IN CASE proc.exitCallback = "none" -> ProcessExit(w1, code)
       [] proc.exitCallback = "throws" -> Throw(called, CustomError)
       [] OTHER -> called

\* the handler _executeSubCommand registers with proc.on("close"): code = code ?? 1,
\* then the exit callback captured at the spawn, or process.exit
closeHandler(w, c, code) ==
  LET proc == w.cmds[c].runningCommand[1]
      exitCode == IF code = NullCode THEN 1 ELSE code
      w1 == LogEv([w EXCEPT !.cmds[c].runningCommand[1].closed = TRUE],
                  [Ev("close", c) EXCEPT !.x = exitCode])
      called == LogEv(w1, [Ev("exitCallback", c)
                             EXCEPT !.x = exitCode,
                                    !.code = "commander.executeSubCommandAsync",
                                    !.m = Msg("(close)")])
  IN CASE proc.exitCallback = "none" -> ProcessExit(w1, exitCode)
       [] proc.exitCallback = "throws" -> Throw(called, CustomError)
       [] OTHER -> called

RECURSIVE _parseCommand(_, _, _, _)

\* running the closure of a step
Call(w, step) ==
  CASE step.k = "hook" ->
         Invoke(LogEv(w, [Ev("hook", step.c) EXCEPT !.c2 = step.sub, !.n = step.id,
                                                   !.code = step.ev]),
                step.id, step.kind)
    [] step.k = "action" ->
         Invoke(LogEv(w, [Ev("action", step.c) EXCEPT !.n = step.id]), step.id, step.kind)
    [] step.k = "legacy" ->
         LogEv(w, [Ev("emit", step.c) EXCEPT !.c2 = step.sub, !.toks = step.operands,
                                             !.toks2 = step.unknown])
    [] OTHER ->
         IF w.cmds[step.sub].executableHandler
         THEN _executeSubCommand(w, step.c, step.sub, step.operands \o step.unknown)
         ELSE _parseCommand(w, step.sub, step.operands, step.unknown)

\* a chain that does not wait: every closure is called at once
chainOrCallAtOnce(w, step) ==
  IF ~Running(w) THEN w ELSE Call(w, step)

\* Command._chainOrCall
_chainOrCall(w, step) ==
  IF ~Running(w)
  THEN w
  ELSE IF w.promise = "pending"
       THEN [w EXCEPT !.thens = Append(@, step)]
       ELSE Call(w, step)

\* hooks.forEach(hookDetail => result = this._chainOrCall(result, ...))
RECURSIVE chainSteps(_, _, _)
chainSteps(w, steps, k) ==
  IF k > Len(steps) THEN w ELSE chainSteps(_chainOrCall(w, steps[k]), steps, k + 1)

\* array.reverse()
Reverse(seq) == [k \in 1..Len(seq) |-> seq[Len(seq) + 1 - k]]

\* the hooks of the commands of a list, in list order and registration order
RECURSIVE hookSteps(_, _, _, _, _)
hookSteps(w, c, chain, k, event) ==
  IF k > Len(chain)
  THEN <<>>
  ELSE LET callbacks == w.cmds[chain[k]].lifeCycleHooks[event]
       IN [j \in 1..Len(callbacks) |->
             [NoStep EXCEPT !.k = "hook", !.c = chain[k], !.sub = c, !.ev = event,
                            !.id = callbacks[j].id, !.kind = callbacks[j].kind]]
          \o hookSteps(w, c, chain, k + 1, event)

\* hooks chained in the same order for every event
chainOrCallHooksInOrder(w, c, event) ==
  chainSteps(w, hookSteps(w, c, Reverse(_getCommandAndAncestors(w, c)), 1, event), 1)

\* Command._chainOrCallHooks
_chainOrCallHooks(w, c, event) ==
  LET hooks == hookSteps(w, c, Reverse(_getCommandAndAncestors(w, c)), 1, event)
  IN chainSteps(w, IF event = "postAction" THEN Reverse(hooks) ELSE hooks, 1)

\* Command._chainOrCallSubCommandHook
_chainOrCallSubCommandHook(w, c, subCommand, event) ==
  LET callbacks == w.cmds[c].lifeCycleHooks[event]
  IN chainSteps(w, [j \in 1..Len(callbacks) |->
                      [NoStep EXCEPT !.k = "hook", !.c = c, !.sub = subCommand, !.ev = event,
                                     !.id = callbacks[j].id, !.kind = callbacks[j].kind]], 1)

\* Command._dispatchSubcommand
_dispatchSubcommand(w, c, commandName, operands, unknown) ==
  IF _findCommand(w, c, commandName) = <<>>
  THEN help(w, c, TRUE)
  ELSE _chainOrCall(
         Then(_prepareForParse(w, _findCommand(w, c, commandName)[1]),
              LAMBDA v : _chainOrCallSubCommandHook(v, c, _findCommand(w, c, commandName)[1],
                                                    "preSubcommand")),
         [NoStep EXCEPT !.k = "dispatch", !.c = c,
                        !.sub = _findCommand(w, c, commandName)[1],
                        !.operands = operands, !.unknown = unknown])

\* the flag of the help option, --help when there is none
helpFlagOf(helpOption) ==
  IF helpOption = <<>>
  THEN T_helpflag
  ELSE IF helpOption[1].long # <<>>
       THEN helpOption[1].long[1]
       ELSE IF helpOption[1].short # <<>>
            THEN helpOption[1].short[1]
            ELSE T_helpflag

\* Command._dispatchHelpCommand; subcommandName is a sequence of 0 or 1 token
_dispatchHelpCommand(w, c, subcommandName) ==
  IF subcommandName = <<>>
  THEN help(w, c, FALSE)
  ELSE Then(IF /\ _findCommand(w, c, subcommandName[1]) # <<>>
               /\ ~w.cmds[_findCommand(w, c, subcommandName[1])[1]].executableHandler
            THEN help(w, _findCommand(w, c, subcommandName[1])[1], FALSE)
            ELSE w,
            LAMBDA v : _dispatchSubcommand(v, c, subcommandName[1], <<>>,
                                           <<helpFlagOf(w.cmds[c].helpOption)>>))

\* checkForUnknownOptions of Command._parseCommand
checkForUnknownOptions(w, c, parsedUnknown) ==
  IF Len(parsedUnknown) > 0 THEN unknownOption(w, c, parsedUnknown[1]) ELSE w

\* the branch for a command with an action handler without the check for unknown
\* options
parseCommandActionUnchecked(w, c, operands, unknown, parsedUnknown) ==
  Then(Then(Then(Then(Then(w,
                           LAMBDA v : _processArguments(v, c)),
                      LAMBDA v : _chainOrCallHooks(v, c, "preAction")),
                 LAMBDA v : _chainOrCall(v, [NoStep EXCEPT !.k = "action", !.c = c, !.id = c,
                                                           !.kind = w.cmds[c].actionHandler])),
            LAMBDA v : IF w.cmds[c].parent # NoCmd
                       THEN _chainOrCall(v, [NoStep EXCEPT !.k = "legacy",
                                                           !.c = w.cmds[c].parent, !.sub = c,
                                                           !.operands = operands,
                                                           !.unknown = unknown])
                       ELSE v),
       LAMBDA v : _chainOrCallHooks(v, c, "postAction"))

\* the branch of Command._parseCommand for a command with an action handler
parseCommandAction(w, c, operands, unknown, parsedUnknown) ==
  Then(Then(Then(Then(Then(checkForUnknownOptions(w, c, parsedUnknown),
                           LAMBDA v : _processArguments(v, c)),
                      LAMBDA v : _chainOrCallHooks(v, c, "preAction")),
                 LAMBDA v : _chainOrCall(v, [NoStep EXCEPT !.k = "action", !.c = c, !.id = c,
                                                           !.kind = w.cmds[c].actionHandler])),
            LAMBDA v : IF w.cmds[c].parent # NoCmd
                       THEN _chainOrCall(v, [NoStep EXCEPT !.k = "legacy",
                                                           !.c = w.cmds[c].parent, !.sub = c,
                                                           !.operands = operands,
                                                           !.unknown = unknown])
                       ELSE v),
       LAMBDA v : _chainOrCallHooks(v, c, "postAction"))

\* checkForUnknownOptions(); this._processArguments()
checkAndProcess(w, c, parsedUnknown) ==
  Then(checkForUnknownOptions(w, c, parsedUnknown), LAMBDA v : _processArguments(v, c))

\* the branches of Command._parseCommand for a command without an action handler
parseCommandNoAction(w, c, operands, unknown, parsedUnknown) ==
  IF w.cmds[c].parent # NoCmd /\ w.cmds[c].legacyListener
  THEN Then(checkAndProcess(w, c, parsedUnknown),
            LAMBDA v : LogEv(v, [Ev("emit", w.cmds[c].parent)
                                   EXCEPT !.c2 = c, !.toks = operands, !.toks2 = unknown]))
  ELSE IF Len(operands) > 0 /\ _findCommand(w, c, T_star) # <<>>
  THEN _dispatchSubcommand(w, c, T_star, operands, unknown)
  ELSE IF Len(operands) > 0 /\ w.cmds[c].starListener
  THEN LogEv(w, [Ev("emit", c) EXCEPT !.n = "command:*", !.toks = operands,
                                      !.toks2 = unknown])
  ELSE IF Len(operands) > 0 /\ Len(w.cmds[c].commands) > 0
  THEN unknownCommand(w, c)
  ELSE Then(checkForUnknownOptions(w, c, parsedUnknown),
            LAMBDA v : IF Len(operands) = 0 /\ Len(w.cmds[c].commands) > 0
                       THEN help(v, c, TRUE)
                       ELSE _processArguments(v, c))

\* the part after the dispatch branches with the help flag looked for after the
\* checks of the mandatory and the conflicting options
parseCommandHereHelpLast(w, c, operands, unknown, parsedUnknown) ==
  Then(Then(Then(Then(IF /\ Len(w.cmds[c].commands) > 0
                         /\ Len(w.cmds[c].args) = 0
                         /\ w.cmds[c].actionHandler = "none"
                         /\ w.cmds[c].defaultCommandName = <<>>
                      THEN help(w, c, TRUE)
                      ELSE w,
                      LAMBDA v : _checkForMissingMandatoryOptions(v, c)),
                 LAMBDA v : _checkForConflictingOptions(v, c)),
            LAMBDA v : _outputHelpIfRequested(v, c, parsedUnknown)),
       LAMBDA v : IF v.cmds[c].actionHandler # "none"
                  THEN parseCommandAction(v, c, operands, unknown, parsedUnknown)
                  ELSE parseCommandNoAction(v, c, operands, unknown, parsedUnknown))

\* the part of Command._parseCommand after the dispatch branches
parseCommandHere(w, c, operands, unknown, parsedUnknown) ==
  Then(Then(Then(Then(IF /\ Len(w.cmds[c].commands) > 0
                         /\ Len(w.cmds[c].args) = 0
                         /\ w.cmds[c].actionHandler = "none"
                         /\ w.cmds[c].defaultCommandName = <<>>
                      THEN help(w, c, TRUE)
                      ELSE w,
                      LAMBDA v : _outputHelpIfRequested(v, c, parsedUnknown)),
                 LAMBDA v : _checkForMissingMandatoryOptions(v, c)),
            LAMBDA v : _checkForConflictingOptions(v, c)),
       LAMBDA v : IF v.cmds[c].actionHandler # "none"
                  THEN parseCommandAction(v, c, operands, unknown, parsedUnknown)
                  ELSE parseCommandNoAction(v, c, operands, unknown, parsedUnknown))

\* this.args = operands.concat(unknown)
setArgs(w, c, operands, unknown) ==
  LogEv([w EXCEPT !.cmds[c].args = operands \o unknown, !.cmds[c].argsEpoch = w.epoch],
        [Ev("classified", c) EXCEPT !.toks = operands, !.toks2 = unknown])

\* a dispatch that hands the tokens to the default child without looking for the
\* help flag first
parseCommandDispatchNoHelp(w, c, operands, unknown) ==
  IF operands # <<>> /\ _findCommand(w, c, operands[1]) # <<>>
  THEN _dispatchSubcommand(setArgs(w, c, operands, unknown), c, operands[1],
                           Slice(operands, 1), unknown)
  ELSE IF /\ operands # <<>>
          /\ _getHelpCommand(w, c) # <<>>
          /\ operands[1] = _getHelpCommand(w, c)[1]
  THEN _dispatchHelpCommand(setArgs(w, c, operands, unknown), c,
                            IF Len(operands) > 1 THEN <<operands[2]>> ELSE <<>>)
  ELSE IF w.cmds[c].defaultCommandName # <<>>
  THEN _dispatchSubcommand(setArgs(w, c, operands, unknown), c,
                           w.cmds[c].defaultCommandName, operands, unknown)
  ELSE parseCommandHere(setArgs(w, c, operands, unknown), c, operands, unknown, unknown)

\* Command._parseCommand from this.args = operands.concat(unknown) on
parseCommandDispatch(w, c, operands, unknown) ==
  IF operands # <<>> /\ _findCommand(w, c, operands[1]) # <<>>
  THEN _dispatchSubcommand(setArgs(w, c, operands, unknown), c, operands[1],
                           Slice(operands, 1), unknown)
  ELSE IF /\ operands # <<>>
          /\ _getHelpCommand(w, c) # <<>>
          /\ operands[1] = _getHelpCommand(w, c)[1]
  THEN _dispatchHelpCommand(setArgs(w, c, operands, unknown), c,
                            IF Len(operands) > 1 THEN <<operands[2]>> ELSE <<>>)
  ELSE IF w.cmds[c].defaultCommandName # <<>>
  THEN Then(_outputHelpIfRequested(setArgs(w, c, operands, unknown), c, unknown),
            LAMBDA v : _dispatchSubcommand(v, c, w.cmds[c].defaultCommandName,
                                           operands, unknown))
  ELSE parseCommandHere(setArgs(w, c, operands, unknown), c, operands, unknown, unknown)

\* Command._parseCommand after parseOptions has returned parsed
parseCommandParsed(parsed0, c, operands0) ==
  Then(Then(Then(parsed0.w, LAMBDA v : _parseOptionsEnv(v, c)),
            LAMBDA v : _parseOptionsImplied(v, c)),
       LAMBDA v : parseCommandDispatch(v, c, operands0 \o parsed0.operands, parsed0.unknown))

\* Command._parseCommand
_parseCommand(w, c, operands0, unknown0) ==
  parseCommandParsed(
    parseOptions(LogEv(w, [Ev("parseCommand", c) EXCEPT !.toks = operands0,
                                                        !.toks2 = unknown0]),
                 c, unknown0),
    c, operands0)

\* Command._prepareUserArgs, for { from: "user" }
_prepareUserArgs(w, c, args) ==
  [w EXCEPT !.cmds[c].rawArgs = args,
            !.cmds[c].name = IF @ = <<>> THEN <<"p", "r", "o", "g", "r", "a", "m">> ELSE @]

\* Command.parse, up to the point where the synchronous run ends
parse(w, c, args) ==
  Then(_prepareForParse(w, c),
       LAMBDA v : _parseCommand(_prepareUserArgs(v, c, args), c, <<>>, args))

(***************************************************************************)
(* Building a command tree.  t is a record with the field cmds.            *)
(***************************************************************************)
\* Command.addOption
addOption(t, c, option) ==
  LET t1 == [t EXCEPT !.cmds[c].options = Append(@, option)]
      positive == IF option.long = <<>> THEN <<>> ELSE <<"-", "-">> \o SubSeq(option.long[1], 6, Len(option.long[1]))
  IN IF option.negate
     THEN IF _findOption(t1, c, positive) = <<>>
          THEN setOptionValueWithSource(t1, c, option.key,
                 IF option.defaultValue.k = "undef" THEN Bool(TRUE, 0) ELSE option.defaultValue,
                 "default")
          ELSE t1
     ELSE IF option.defaultValue.k # "undef"
          THEN setOptionValueWithSource(t1, c, option.key, option.defaultValue, "default")
          ELSE t1

\* Command.copyInheritedSettings
copyInheritedSettings(t, c, sourceCommand) ==
  LET src == t.cmds[sourceCommand]
  IN [t EXCEPT !.cmds[c].helpOption = src.helpOption,
               !.cmds[c].addImplicitHelpCommand = src.addImplicitHelpCommand,
               !.cmds[c].helpCommandName = src.helpCommandName,
               !.cmds[c].exitCallback = src.exitCallback,
               !.cmds[c].storeOptionsAsProperties = src.storeOptionsAsProperties,
               !.cmds[c].combineFlagAndOptionalValue = src.combineFlagAndOptionalValue,
               !.cmds[c].allowExcessArguments = src.allowExcessArguments,
               !.cmds[c].enablePositionalOptions = src.enablePositionalOptions,
               !.cmds[c].showHelpAfterError = src.showHelpAfterError]

\* new Error(message), thrown while the application declares its commands
BuildError(what) == UserError(what)

\* Command._registerCommand (the help group of the command is not part of the state)
_registerCommand(t, c, id) ==
  LET knownBy == <<t.cmds[id].name>> \o t.cmds[id].aliases
  IN IF \E k \in 1..Len(knownBy) : _findCommand(t, c, knownBy[k]) # <<>>
     THEN Throw(t, BuildError("cannot add command"))
     ELSE [t EXCEPT !.cmds[c].commands = Append(@, id)]

\* Command.command(name, desc?, opts): the new command is the object id
command(t, c, id, name, executable, isDefault) ==
  LET cmd == [NewCommand(name) EXCEPT !.executableHandler = executable]
      t1 == [t EXCEPT !.cmds = [x \in (DOMAIN t.cmds) \cup {id} |->
                                 IF x = id THEN cmd ELSE t.cmds[x]]]
      t2 == [t1 EXCEPT !.cmds[c].defaultCommandName = IF isDefault THEN name ELSE @]
  IN Then(_registerCommand(t2, c, id),
          LAMBDA r : copyInheritedSettings([r EXCEPT !.cmds[id].parent = c], id, c))

\* Command._checkForBrokenPassThrough
_checkForBrokenPassThrough(t, c) ==
  IF /\ t.cmds[c].parent # NoCmd
     /\ t.cmds[c].passThroughOptions
     /\ ~t.cmds[t.cmds[c].parent].enablePositionalOptions
  THEN Throw(t, BuildError("passThroughOptions cannot be used"))
  ELSE t

\* Command.addCommand(cmd, opts): the prepared command is the object id
\* Command.enablePositionalOptions
enablePositionalOptions(t, c, positional) ==
  [t EXCEPT !.cmds[c].enablePositionalOptions = positional]

\* Command.passThroughOptions: the flag is stored, then checked
passThroughOptions(t, c, passThrough) ==
  _checkForBrokenPassThrough([t EXCEPT !.cmds[c].passThroughOptions = passThrough], c)

addCommand(t, c, id, isDefault) ==
  IF t.cmds[id].name = <<>>
  THEN Throw(t, BuildError("command must have a name"))
  ELSE Then(_registerCommand([t EXCEPT !.cmds[c].defaultCommandName =
                                         IF isDefault THEN t.cmds[id].name ELSE @], c, id),
            LAMBDA r : _checkForBrokenPassThrough([r EXCEPT !.cmds[id].parent = c], id))

\* Command.hook
hook(t, c, event, id, kind) ==
  [t EXCEPT !.cmds[c].lifeCycleHooks[event] = Append(@, [id |-> id, kind |-> kind])]

\* Command.exitOverride; "none" is a program that never calls it
exitOverride(t, c, fn) == [t EXCEPT !.cmds[c].exitCallback = fn]

\* Command.action
action(t, c, kind) == [t EXCEPT !.cmds[c].actionHandler = kind]

\* Command.alias(alias): the alias goes to the last child when that is an executable
\* subcommand, and the lookup for a command already known by it is made in the
\* parent of the command the method is called on
alias(t, c, name) ==
  LET children == t.cmds[c].commands
      target == IF children # <<>> /\ t.cmds[children[Len(children)]].executableHandler
                THEN children[Len(children)]
                ELSE c
      matchingCommand == IF t.cmds[c].parent = NoCmd
                         THEN <<>>
                         ELSE _findCommand(t, t.cmds[c].parent, name)
  IN IF name = t.cmds[target].name
     THEN Throw(t, BuildError("alias can't be the same as its name"))
     ELSE IF matchingCommand # <<>>
          THEN Throw(t, BuildError("cannot add alias"))
          ELSE [t EXCEPT !.cmds[target].aliases = Append(@, name)]

\* Command.aliases(aliases): alias for each of them, up to the first that throws
RECURSIVE aliases(_, _, _)
aliases(t, c, names) ==
  IF names = <<>>
  THEN t
  ELSE Then(alias(t, c, Head(names)), LAMBDA r : aliases(r, c, Tail(names)))

\* new Argument(name): <name> is required, [name] is optional, a bare name is
\* required, and a name that ends in ... is variadic
createArgument(name) ==
  LET inner == IF name # <<>> /\ name[1] \in {"<", "["}
               THEN SubSeq(name, 2, Len(name) - 1)
               ELSE name
      variadic == /\ Len(inner) >= 3
                  /\ SubSeq(inner, Len(inner) - 2, Len(inner)) = <<".", ".", ".">>
  IN MkArgument(IF variadic THEN SubSeq(inner, 1, Len(inner) - 3) ELSE inner,
                name = <<>> \/ name[1] # "[",
                variadic)

\* addArgument without the test of the previous argument
addArgumentAfterVariadic(t, c, argument) ==
  IF /\ argument.required
     /\ argument.defaultValue.k # "undef"
     /\ argument.parseArg = "none"
  THEN Throw(t, BuildError("a default value for a required argument is never used"))
  ELSE [t EXCEPT !.cmds[c].registeredArguments = Append(@, argument)]

\* Command.addArgument
addArgument(t, c, argument) ==
  LET registered == t.cmds[c].registeredArguments
  IN IF registered # <<>> /\ registered[Len(registered)].variadic
     THEN Throw(t, BuildError("only the last argument can be variadic"))
     ELSE IF /\ argument.required
             /\ argument.defaultValue.k # "undef"
             /\ argument.parseArg = "none"
          THEN Throw(t, BuildError("a default value for a required argument is never used"))
          ELSE [t EXCEPT !.cmds[c].registeredArguments = Append(@, argument)]

\* Command.argument(name, description, parseArg, defaultValue), and
\* Command.argument(name, description, defaultValue) when parseArg is "none"
argument(t, c, name, parseArg, defaultValue) ==
  addArgument(t, c, [createArgument(name) EXCEPT !.defaultValue = defaultValue,
                                                 !.parseArg = parseArg])

\* Command.arguments(names): argument for each name, up to the first that throws
RECURSIVE arguments(_, _, _)
arguments(t, c, names) ==
  IF names = <<>>
  THEN t
  ELSE Then(argument(t, c, Head(names), "none", Undef),
            LAMBDA r : arguments(r, c, Tail(names)))

\* Command.allowExcessArguments
allowExcessArguments(t, c, allowExcess) ==
  [t EXCEPT !.cmds[c].allowExcessArguments = allowExcess]

\* Command.allowUnknownOption
allowUnknownOption(t, c, allowUnknown) ==
  [t EXCEPT !.cmds[c].allowUnknownOption = allowUnknown]

\* addArgument for each prepared argument of a list
RECURSIVE addArguments(_, _, _)
addArguments(t, c, prepared) ==
  IF prepared = <<>>
  THEN t
  ELSE Then(addArgument(t, c, Head(prepared)),
            LAMBDA r : addArguments(r, c, Tail(prepared)))

\* Command.version
version(t, c) == addOption([t EXCEPT !.cmds[c].version = <<"1">>], c, OptVersion)

\* the objects before the application configures them, which it does without
\* an error so far
NewTree == [cmds |-> [id \in CmdIds |-> NewCommand(CASE id = "prog" -> T_prog
                                                      [] id = "serve" -> T_serve
                                                      [] OTHER -> T_leaf)],
            status |-> "running", err |-> NoErr]

\* addOption for each option of a list
RECURSIVE addOptions(_, _, _)
addOptions(t, c, options) ==
  IF options = <<>> THEN t ELSE addOptions(addOption(t, c, Head(options)), c, Tail(options))

(***************************************************************************)
(* Token lists.                                                            *)
(***************************************************************************)
\* the lists of at most n tokens of a set
RECURSIVE ListsUpTo(_, _)
ListsUpTo(tokens, n) ==
  IF n = 0
  THEN {<<>>}
  ELSE LET shorter == ListsUpTo(tokens, n - 1)
       IN shorter \cup {Append(l, t) : l \in {x \in shorter : Len(x) = n - 1}, t \in tokens}

NoParsed == [called |-> FALSE, on |-> "", operands |-> <<>>, unknown |-> <<>>,
             scanned |-> {}, switched |-> 0,
             before |-> [optionValues |-> [k \in OptKeys |-> Undef],
                         optionValueSources |-> [k \in OptKeys |-> "none"]]]
NoEnv == [vars |-> {}, exitCode |-> 0]

\* the state the operators leave, as the next state
Commit(w) ==
  /\ cmds' = w.cmds
  /\ env' = w.env
  /\ log' = w.log
  /\ status' = w.status
  /\ err' = w.err
  /\ promise' = w.promise
  /\ awaiting' = w.awaiting
  /\ thens' = w.thens
  /\ epoch' = w.epoch

\* the end of a synchronous run: the caller gets control back, or an error
Settle(w) ==
  IF w.status = "running"
  THEN IF w.promise = "pending"
       THEN [w EXCEPT !.status = "pending"]
       ELSE [w EXCEPT !.status = "done", !.promise = "none"]
  ELSE w

(***************************************************************************)
(* The classifier on its own: parseOptions called on a configured command. *)
(***************************************************************************)
POTokens == {T_dd, T_dash, T_ab, T_Va, T_port, T_o, T_l, T_u, T_x, T_serve}
POArgs == ListsUpTo(POTokens, MaxLen)

\* program.option(...)...: a root with six options, with or without a subcommand
POProgram(exit, positional, passThrough, shape) ==
  LET t1 == exitOverride(NewTree, "prog", exit)
      t2 == version(addOptions(t1, "prog", <<OptA, OptB, OptPort, OptOpt, OptList>>), "prog")
      t3 == [t2 EXCEPT !.cmds["prog"].enablePositionalOptions = positional,
                       !.cmds["prog"].passThroughOptions = passThrough]
  IN IF shape = "leaf"
     THEN t3.cmds
     ELSE action(command(t3, "prog", "serve", T_serve, FALSE, shape = "default"),
                 "serve", "sync").cmds

POConfigs ==
  {POProgram("default", positional, passThrough, shape) :
     positional \in BOOLEAN, passThrough \in BOOLEAN, shape \in {"leaf", "parent", "default"}}
  \cup {POProgram("none", positional, passThrough, "leaf") :
          positional \in BOOLEAN, passThrough \in BOOLEAN}

InitPO ==
  /\ cmds \in POConfigs
  /\ env = NoEnv
  /\ log = <<>>
  /\ status = "idle"
  /\ err = NoErr
  /\ promise = "none"
  /\ awaiting = ""
  /\ thens = <<>>
  /\ epoch = 0
  /\ argv = <<>>
  /\ prevArgv = <<>>
  /\ parsed = NoParsed
  /\ calls = 1

\* what the call returned is kept, and the caller goes on
Returned(r, c) ==
  /\ Commit(Settle(r.w))
  /\ parsed' = [called |-> TRUE, on |-> c, operands |-> r.operands, unknown |-> r.unknown,
                scanned |-> r.scanned, switched |-> r.switched, before |-> r.before]

\* program.parseOptions(args)
CallParseOptions(args) ==
  /\ status = "idle"
  /\ calls > 0
  /\ Returned(parseOptions([World EXCEPT !.status = "running", !.epoch = @ + 1],
                           "prog", args), "prog")
  /\ argv' = args
  /\ prevArgv' = argv
  /\ calls' = calls - 1

NextPO == \E args \in POArgs : CallParseOptions(args)

SpecPO == InitPO /\ [][NextPO]_vars

(***************************************************************************)
(* Properties of the classifier, under SpecPO.                             *)
(***************************************************************************)
\* the value-assignment signals emitted while the token at position k was at work
SignalsAt(k) == SelectSeq(log, LAMBDA ev : ev.e = "option" /\ ev.at = k)

IsSuffix(x, y) == Len(x) <= Len(y) /\ SubSeq(y, Len(y) - Len(x) + 1, Len(y)) = x

\* the number of times a token occurs in a list
Count(t, l) == Cardinality({k \in 1..Len(l) : l[k] = t})

\* the position of the first "--" of the input, 0 when there is none
FirstLiteral ==
  IF \E k \in 1..Len(argv) : argv[k] = T_dd
  THEN CHOOSE k \in 1..Len(argv) : argv[k] = T_dd /\ \A j \in 1..(k - 1) : argv[j] # T_dd
  ELSE 0

\* an option-shaped token the scan met before position k and did not recognise
Diverged(k) ==
  \E j \in parsed.scanned :
    j < k /\ Len(argv[j]) > 1 /\ argv[j][1] = "-" /\ SignalsAt(j) = <<>>

\* what C2 asks of the "--" at position k
AfterLiteral(k) ==
  /\ status = "done"
     => IF Diverged(k)
        THEN IsSuffix(<<T_dd>> \o Slice(argv, k), parsed.unknown)
        ELSE IsSuffix(Slice(argv, k), parsed.operands)
  /\ \A j \in 1..Len(log) : log[j].e = "option" => log[j].at < k

NoOptionShaped == \A k \in 1..Len(argv) : ~(Len(argv[k]) > 1 /\ argv[k][1] = "-")

\* C3, as stated: a token list without option-shaped tokens comes back as operands,
\* with unknown empty, for every configuration.
C3_OperandsAreInput ==
  (parsed.called /\ status = "done" /\ NoOptionShaped)
    => (parsed.operands = argv /\ parsed.unknown = <<>>)

\* C3, amended: for a token list without option-shaped tokens parseOptions returns,
\* emits no signal, and operands followed by unknown is the input; operands is the
\* whole input unless positional or pass-through options are enabled and either the
\* first token names a subcommand (operands is that token, unknown the rest) or,
\* the first token being no subcommand and not the help command, a default command
\* is configured (operands is empty, unknown the whole input).
C3_OperandsThenUnknownAreInput ==
  (parsed.called /\ NoOptionShaped) =>
    LET root == cmds["prog"]
        t == [cmds |-> cmds]
        stops == (root.enablePositionalOptions \/ root.passThroughOptions) /\ argv # <<>>
        names == stops /\ _findCommand(t, "prog", argv[1]) # <<>>
        isHelp == /\ stops
                  /\ _getHelpCommand(t, "prog") # <<>>
                  /\ argv[1] = _getHelpCommand(t, "prog")[1]
        defaults == stops /\ ~names /\ ~isHelp /\ root.defaultCommandName # <<>>
    IN /\ status = "done"
       /\ log = <<>>
       /\ parsed.operands \o parsed.unknown = argv
       /\ parsed.operands = IF names THEN <<argv[1]>> ELSE IF defaults THEN <<>> ELSE argv

\* C3: plain tokens after a subcommand name, with positional options enabled
C3_Witness ==
  /\ parsed.called
  /\ NoOptionShaped
  /\ Len(argv) >= 2
  /\ parsed.operands = <<argv[1]>>
  /\ parsed.unknown = Slice(argv, 1)

\* the registered option with the short flag -x, in a sequence of 0 or 1
ShortFlag(x) == _findOption([cmds |-> cmds], "prog", <<"-", x>>)

\* a token -x1x2...xk, k >= 2, of registered boolean short flags
IsCluster(t) ==
  /\ Len(t) >= 3
  /\ t[1] = "-"
  /\ \A i \in 2..Len(t) :
       t[i] # "-" /\ ShortFlag(t[i]) # <<>> /\ OptionIsBoolean(ShortFlag(t[i])[1])

\* the names of the flags of a cluster, in order
ClusterNames(t) == [i \in 1..(Len(t) - 1) |-> ShortFlag(t[i + 1])[1].name]

\* the names the signals of a list carry, in order
SignalNames(sig) == [i \in 1..Len(sig) |-> sig[i].n]

\* C9, as stated: every token that is a cluster of registered boolean short flags
\* gives exactly one value-less signal per flag, in order, and adds nothing to
\* operands or unknown.
C9_EveryClusterSignalsEachFlag ==
  parsed.called =>
    \A k \in 1..Len(argv) :
      IsCluster(argv[k]) =>
        /\ SignalNames(SignalsAt(k)) = ClusterNames(argv[k])
        /\ \A i \in 1..Len(SignalsAt(k)) : SignalsAt(k)[i].v = Undef
        /\ Count(argv[k], parsed.operands \o parsed.unknown) = 0

\* C9, amended: every cluster of registered boolean short flags that the scan
\* reaches as the token to classify gives one value-less signal per flag, in
\* order; the signals stop short only at a flag whose listener terminates the
\* parse (the version flag); and operands and unknown hold a cluster token no more
\* often than it occurs at positions the scan did not reach.
C9_ScannedClusterSignalsEachFlag ==
  parsed.called =>
    \A k \in parsed.scanned :
      IsCluster(argv[k]) =>
        LET sig == SignalsAt(k)
            want == ClusterNames(argv[k])
        IN /\ Len(sig) <= Len(want)
           /\ SignalNames(sig) = SubSeq(want, 1, Len(sig))
           /\ \A i \in 1..Len(sig) : sig[i].v = Undef
           /\ Len(sig) >= 1
           /\ Len(sig) < Len(want)
                => /\ status \in {"thrown", "exited"}
                   /\ ShortFlag(argv[k][Len(sig) + 1])[1].listener = "version"
           /\ Count(argv[k], parsed.operands \o parsed.unknown)
                <= Cardinality({j \in 1..Len(argv) \ parsed.scanned : argv[j] = argv[k]})

\* C9: a cluster of two flags is reached after another token and both flags signal
C9_Witness ==
  /\ parsed.called
  /\ status = "done"
  /\ \E k \in parsed.scanned :
       k >= 2 /\ argv[k] = T_ab /\ SignalNames(SignalsAt(k)) = <<"a", "b">>

\* a flag of a registered option that requires an argument
RequiredFlag(t) ==
  \E j \in 1..Len(cmds["prog"].options) :
    cmds["prog"].options[j].required /\ OptionIs(cmds["prog"].options[j], t)

\* the flags of the option a token is a flag of
FlagsOf(t) ==
  LET option == _findOption([cmds |-> cmds], "prog", t)
  IN IF option = <<>> THEN "" ELSE option[1].flags

\* the parse ended with the missing-argument error for the last token, the option
\* values and sources being those held when that token was fetched
MissingArgumentReported ==
  /\ status \in {"thrown", "exited"}
  /\ Len(log) >= 2
  /\ \E j \in 1..Len(log) :
       /\ log[j].e = "_exit"
       /\ log[j].code = "commander.optionMissingArgument"
       /\ log[j].x = 1
       /\ log[j].m.n = FlagsOf(argv[Len(argv)])
       /\ log[j].at = Len(argv)
  /\ status = "thrown"
       => (err.code = "commander.optionMissingArgument" /\ err.exitCode = 1)
  /\ status = "exited" => log[Len(log)] = [Ev("process.exit", "") EXCEPT !.x = 1,
                                                                          !.at = Len(argv)]
  /\ cmds["prog"].optionValues = parsed.before.optionValues
  /\ cmds["prog"].optionValueSources = parsed.before.optionValueSources

\* C10, as stated: whenever a registered option that requires an argument is the
\* last token, the parse ends with commander.optionMissingArgument, exit code 1,
\* naming the option's flags, and the stored value and source are unchanged.
C10_LastRequiredOptionIsMissingArgument ==
  (parsed.called /\ argv # <<>> /\ RequiredFlag(argv[Len(argv)]))
    => MissingArgumentReported

\* C10, amended: the same, whenever the scan reaches that last token as the token to
\* classify (it was not taken as the value of the option before it, and the scan did
\* not stop before it).
C10_ScannedLastRequiredOptionIsMissingArgument ==
  (parsed.called /\ argv # <<>> /\ RequiredFlag(argv[Len(argv)])
     /\ Len(argv) \in parsed.scanned)
    => MissingArgumentReported

\* C10: the option is given with a value and then again, without one, as last token
C10_Witness ==
  /\ parsed.called
  /\ argv = <<T_port, T_x, T_port>>
  /\ 3 \in parsed.scanned
  /\ cmds["prog"].optionValues["port"] = Str(T_x, 1)
  /\ status = "thrown"

(***************************************************************************)
(* Whole programs: a tree built by the application, then parse().          *)
(***************************************************************************)
\* the kind of the hook with a given id under a choice of hooks
HookKind(hooks, id) ==
  CASE hooks = "async" -> "async"
    [] hooks = "mixed" -> IF id \in {"ps1", "pa2", "lo1"} THEN "async" ELSE "sync"
    [] hooks = "throws" -> IF id = "pa2" THEN "throws" ELSE "sync"
    [] OTHER -> "sync"

\* program.hook(...) for the hooks of the nested program
NestedHooks(t, hooks) ==
  LET h1 == hook(t, "prog", "preSubcommand", "ps1", HookKind(hooks, "ps1"))
      h2 == hook(h1, "prog", "preAction", "pa1", HookKind(hooks, "pa1"))
      h3 == hook(h2, "prog", "preAction", "pa2", HookKind(hooks, "pa2"))
      h4 == hook(h3, "prog", "postAction", "po1", HookKind(hooks, "po1"))
      h5 == hook(h4, "prog", "postAction", "po2", HookKind(hooks, "po2"))
      h6 == hook(h5, "serve", "preSubcommand", "ss1", HookKind(hooks, "ss1"))
      h7 == hook(h6, "leaf", "preAction", "la1", HookKind(hooks, "la1"))
  IN IF hooks = "none" THEN t ELSE hook(h7, "leaf", "postAction", "lo1", HookKind(hooks, "lo1"))

\* the root of every program: exitOverride, two options and version()
Root(exit) ==
  version(addOptions(exitOverride(NewTree, "prog", exit), "prog", <<OptA, OptPort>>), "prog")

\* a single command with a required argument and an action
LeafProgram(exit, act) ==
  action(addArgument(Root(exit), "prog", MkArgument("x", TRUE, FALSE)), "prog", act)

\* prog [x] with an action, prog serve (alias s) with an action, prog serve leaf
NestedProgram(exit, hooks, act) ==
  LET t1 == action(addArgument(Root(exit), "prog", MkArgument("x", FALSE, FALSE)),
                   "prog", "sync")
      t2 == alias(command(t1, "prog", "serve", T_serve, FALSE, FALSE), "serve", T_s)
      t3 == action(addOptions(t2, "serve", <<OptA, OptB>>), "serve", "sync")
      t4 == action(command(t3, "serve", "leaf", T_leaf, FALSE, FALSE), "leaf", act)
  IN NestedHooks(t4, hooks)

\* prog with the default command serve
DefaultProgram(exit) ==
  action(command(Root(exit), "prog", "serve", T_serve, FALSE, TRUE), "serve", "sync")

\* prog with the stand-alone executable subcommand serve
ExecProgram(exit) == command(Root(exit), "prog", "serve", T_serve, TRUE, FALSE)

\* prog [x] with a mandatory option, two conflicting options and an argument whose
\* parser rejects every value
StrictProgram(exit) ==
  action(addArgument(addOptions(exitOverride(NewTree, "prog", exit), "prog",
                                <<OptA, [OptB EXCEPT !.conflictsWith = {"a"}],
                                  [OptPort EXCEPT !.mandatory = TRUE]>>),
                     "prog", [MkArgument("x", FALSE, FALSE) EXCEPT !.parseArg = "invalid"]),
         "prog", "sync")

Programs ==
  {LeafProgram(exit, "sync").cmds : exit \in {"none", "default", "throws", "returns"}}
  \cup {LeafProgram("default", act).cmds : act \in {"async", "throws"}}
  \cup {NestedProgram(exit, hooks, act).cmds :
          exit \in {"none", "default"},
          hooks \in {"none", "sync", "async", "mixed", "throws"},
          act \in {"sync", "async"}}
  \cup {DefaultProgram(exit).cmds : exit \in {"none", "default"}}
  \cup {ExecProgram(exit).cmds : exit \in {"none", "default", "returns"}}
  \cup {StrictProgram(exit).cmds : exit \in {"none", "default"}}

Tokens == {T_serve, T_s, T_leaf, T_a, T_ab, T_p8, T_port, T_u, T_x, T_helpflag, T_V,
           T_help}
Argvs ==
  ListsUpTo(Tokens, MaxArgv)
  \cup {<<T_port, T_8>> \o rest : rest \in ListsUpTo(Tokens, MaxArgv - 1)}

Init ==
  /\ cmds \in Programs
  /\ env = NoEnv
  /\ log = <<>>
  /\ status = "idle"
  /\ err = NoErr
  /\ promise = "none"
  /\ awaiting = ""
  /\ thens = <<>>
  /\ epoch = 0
  /\ argv = <<>>
  /\ prevArgv = <<>>
  /\ parsed = NoParsed
  /\ calls = 1

\* program.parse(args, { from: "user" }): the run up to the return to the caller
Parse(args) ==
  /\ status \in {"idle", "done", "thrown", "rejected"}
  /\ calls > 0
  /\ Commit(Settle(parse([World EXCEPT !.status = "running", !.log = <<>>, !.err = NoErr,
                                       !.promise = "none", !.awaiting = "",
                                       !.thens = <<>>, !.epoch = @ + 1],
                         "prog", args)))
  /\ argv' = args
  /\ prevArgv' = argv
  /\ calls' = calls - 1
  /\ UNCHANGED parsed

\* the promise the chain waits for is fulfilled
Resolve ==
  /\ status = "pending"
  /\ promise = "pending"
  /\ Commit([LogEv(World, [Ev("fulfilled", "") EXCEPT !.n = awaiting])
               EXCEPT !.promise = IF thens = <<>> THEN "none" ELSE "fulfilled",
                      !.status = IF thens = <<>> THEN "done" ELSE "pending",
                      !.awaiting = ""])
  /\ UNCHANGED <<argv, prevArgv, parsed, calls>>

\* the promise the chain waits for is rejected: the callbacks behind it never run
Reject ==
  /\ status = "pending"
  /\ promise = "pending"
  /\ Commit([LogEv(World, [Ev("rejected", "") EXCEPT !.n = awaiting])
               EXCEPT !.promise = "none", !.status = "rejected", !.awaiting = "",
                      !.thens = <<>>, !.err = UserError(awaiting)])
  /\ UNCHANGED <<argv, prevArgv, parsed, calls>>

\* the state after a callback chained with then() has run, rest being the callbacks
\* that were queued behind it
AfterCallback(w, rest) ==
  CASE w.status = "thrown" ->
         [w EXCEPT !.status = "rejected", !.promise = "none", !.thens = <<>>]
    [] w.status = "exited" -> w
    [] w.promise = "pending" -> [w EXCEPT !.status = "pending", !.thens = @ \o rest]
    [] rest = <<>> -> [w EXCEPT !.status = "done", !.promise = "none"]
    [] OTHER -> [w EXCEPT !.status = "pending", !.promise = "fulfilled", !.thens = rest]

\* the next callback chained with then() runs; what it queues goes before the rest
ThenCallback ==
  /\ status = "pending"
  /\ promise = "fulfilled"
  /\ thens # <<>>
  /\ Commit(AfterCallback(
              Call([World EXCEPT !.status = "running", !.promise = "none", !.thens = <<>>],
                   Head(thens)),
              Tail(thens)))
  /\ UNCHANGED <<argv, prevArgv, parsed, calls>>

\* an error thrown by an event handler is not caught: the process ends
Uncaught(w) == IF w.status = "thrown" THEN [w EXCEPT !.status = "exited"] ELSE w

\* the spawned executable subcommand ends with an exit code
ChildClose(c, code) ==
  /\ status # "exited"
  /\ cmds[c].runningCommand # <<>>
  /\ ~cmds[c].runningCommand[1].closed
  /\ Commit(Uncaught(closeHandler(World, c, code)))
  /\ UNCHANGED <<argv, prevArgv, parsed, calls>>

ExitCodes == {0, 1}

Next ==
  \/ \E args \in Argvs : Parse(args)
  \/ Resolve
  \/ Reject
  \/ ThenCallback
  \/ \E c \in CmdIds, code \in ExitCodes : ChildClose(c, code)

Spec == Init /\ [][Next]_vars

(***************************************************************************)
(* Termination: _exit, the exit callback, process.exit.                    *)
(***************************************************************************)
\* the event at a position of the log, and the empty event outside the log
EvAt(i) == IF i \in 1..Len(log) THEN log[i] ELSE NoEv

\* the exit callback of the command of an event
CallbackOf(ev) == cmds[ev.c].exitCallback

\* two events carry the same exit code, category code and message, for one command
SameError(ev1, ev2) ==
  /\ ev1.c = ev2.c
  /\ ev1.x = ev2.x
  /\ ev1.code = ev2.code
  /\ ev1.m = ev2.m

\* a hook or an action has returned a promise before position i
PromiseBefore(i) == \E j \in 1..(i - 1) : log[j].e = "promise"

\* the exit callback was called from _exit, with the error _exit was given
CallbackFromExit(i) ==
  /\ EvAt(i - 1).e = "_exit"
  /\ SameError(EvAt(i - 1), log[i])
  /\ CallbackOf(log[i]) # "none"

\* the exit callback was called by the close handler of an executable subcommand
CallbackFromClose(i) ==
  /\ EvAt(i - 1).e = "close"
  /\ EvAt(i - 1).c = log[i].c
  /\ EvAt(i - 1).x = log[i].x
  /\ log[i].code = "commander.executeSubCommandAsync"
  /\ cmds[log[i].c].runningCommand[1].exitCallback # "none"

\* process.exit was called by _exit: no callback, or a callback that returned
ProcessExitFromExit(i) ==
  \/ /\ EvAt(i - 1).e = "_exit"
     /\ EvAt(i - 1).x = log[i].x
     /\ CallbackOf(EvAt(i - 1)) = "none"
  \/ /\ EvAt(i - 1).e = "exitCallback"
     /\ EvAt(i - 1).x = log[i].x
     /\ CallbackFromExit(i - 1)
     /\ \/ CallbackOf(EvAt(i - 1)) = "returns"
        \/ /\ CallbackOf(EvAt(i - 1)) = "default"
           /\ EvAt(i - 1).code = "commander.executeSubCommandAsync"

\* process.exit was called by the close handler: no callback was registered
ProcessExitFromClose(i) ==
  /\ EvAt(i - 1).e = "close"
  /\ EvAt(i - 1).x = log[i].x
  /\ cmds[EvAt(i - 1).c].runningCommand[1].exitCallback = "none"

\* the parse has handed an error to its caller by throwing it
ThrownToCaller(ev) ==
  /\ status = "thrown"
  /\ err = CommanderError(ev.x, ev.code, ev.m)

\* the error came out as the rejection of the promise of the chain
RejectedWith(ev) ==
  /\ status = "rejected"
  /\ err = CommanderError(ev.x, ev.code, ev.m)

HelpCategories == {"commander.help", "commander.helpDisplayed", "commander.version"}

\* the positions where outputError wrote a message
OutputErrors == {j \in 1..Len(log) : log[j].e = "outputError"}

\* the terminator is invoked at position i: _exit, or the exit callback called by
\* the close handler of an executable subcommand
TerminatorAt(i) ==
  \/ log[i].e = "_exit"
  \/ log[i].e = "exitCallback" /\ log[i].code = "commander.executeSubCommandAsync"

\* the message of the termination at i was written by outputError exactly once,
\* for the same command, before i
WrittenOnceBefore(i) ==
  /\ Cardinality(OutputErrors) = 1
  /\ \E j \in OutputErrors : j < i /\ log[j].m = log[i].m /\ log[j].c = log[i].c

RECURSIVE RootToCommand(_)
RootToCommand(c) ==
  IF cmds[c].parent = NoCmd THEN <<c>> ELSE Append(RootToCommand(cmds[c].parent), c)

\* the hooks registered for an event on the commands chain[k..], as pairs of the
\* owning command and the callback, in chain order and in registration order
RECURSIVE RegisteredAlong(_, _, _)
RegisteredAlong(chain, k, event) ==
  IF k > Len(chain)
  THEN <<>>
  ELSE [j \in 1..Len(cmds[chain[k]].lifeCycleHooks[event]) |->
          <<chain[k], cmds[chain[k]].lifeCycleHooks[event][j].id>>]
       \o RegisteredAlong(chain, k + 1, event)

\* the hooks of an event that ran at the positions lo..hi of the log, in order
RECURSIVE HooksRun(_, _, _)
HooksRun(lo, hi, event) ==
  IF lo > hi
  THEN <<>>
  ELSE (IF log[lo].e = "hook" /\ log[lo].code = event
        THEN <<(<<log[lo].c, log[lo].n>>)>>
        ELSE <<>>)
       \o HooksRun(lo + 1, hi, event)

\* seq1 is the beginning of seq2
IsPrefix(seq1, seq2) ==
  /\ Len(seq1) <= Len(seq2)
  /\ \A k \in 1..Len(seq1) : seq1[k] = seq2[k]

\* the sequence in the opposite order
Backwards(seq) == [k \in 1..Len(seq) |-> seq[Len(seq) + 1 - k]]

\* the preSubcommand hooks of the parent of the command parsed at position j all ran
\* before j, after the parent's own parse started, in registration order
PreSubcommandBefore(j) ==
  LET parent == cmds[log[j].c].parent
  IN parent # NoCmd =>
       \E p \in 1..(j - 1) :
         /\ log[p].e = "parseCommand"
         /\ log[p].c = parent
         /\ HooksRun(p, j - 1, "preSubcommand") = RegisteredAlong(<<parent>>, 1, "preSubcommand")

\* C6: in a parse that reaches the action of a command, the preSubcommand hooks of
\* each parent ran before the parse of the child it dispatched to; the preAction
\* hooks of the command and its ancestors all ran before the action, root first and
\* in registration order; no hook of either kind ran on the wrong side of the
\* action; and the postAction hooks run after the action in exactly the reverse
\* order (command first, root last, reverse of registration), all of them once the
\* parse is done.
C6_HooksRunInOrderAroundAction ==
  \A a \in 1..Len(log) :
    log[a].e = "action" =>
      /\ \A j \in 1..(a - 1) : log[j].e = "parseCommand" => PreSubcommandBefore(j)
      /\ HooksRun(1, a - 1, "preAction") =
           RegisteredAlong(RootToCommand(log[a].c), 1, "preAction")
      /\ HooksRun(a + 1, Len(log), "preAction") = <<>>
      /\ HooksRun(1, a - 1, "postAction") = <<>>
      /\ HooksRun(a + 1, Len(log), "preSubcommand") = <<>>
      /\ IsPrefix(HooksRun(a + 1, Len(log), "postAction"),
                  Backwards(RegisteredAlong(RootToCommand(log[a].c), 1, "postAction")))
      /\ status = "done" =>
           HooksRun(a + 1, Len(log), "postAction") =
             Backwards(RegisteredAlong(RootToCommand(log[a].c), 1, "postAction"))

\* a parse of prog serve leaf is done: two preSubcommand hooks, three preAction hooks,
\* the action of leaf and three postAction hooks ran, one of them asynchronous
C6_Witness ==
  /\ status = "done"
  /\ \E a \in 1..Len(log) :
       /\ log[a].e = "action"
       /\ log[a].c = "leaf"
       /\ Len(HooksRun(1, a - 1, "preSubcommand")) = 2
       /\ Len(HooksRun(1, a - 1, "preAction")) = 3
       /\ Len(HooksRun(a + 1, Len(log), "postAction")) = 3
  /\ \E i \in 1..Len(log) : log[i].e = "promise"

(***************************************************************************)
(* Promise sequencing.                                                     *)
(***************************************************************************)
\* the events with which a step of a dispatch chain starts: a hook, an action, the
\* parse of a subcommand, the spawn of an executable, the legacy parent event
StepEvents == {"hook", "action", "parseCommand", "spawn", "emit"}

\* the position where the promise returned at position i was settled, 0 if it is
\* still pending
SettledAt(i) ==
  IF \E k \in (i + 1)..Len(log) : log[k].e \in {"fulfilled", "rejected"} /\ log[k].n = log[i].n
  THEN CHOOSE k \in (i + 1)..Len(log) :
         /\ log[k].e \in {"fulfilled", "rejected"}
         /\ log[k].n = log[i].n
         /\ \A j \in (i + 1)..(k - 1) :
              ~(log[j].e \in {"fulfilled", "rejected"} /\ log[j].n = log[i].n)
  ELSE 0

\* C7: once a step of a dispatch chain has returned a promise, no later step starts
\* before that promise is fulfilled, and when it is rejected no later step runs at
\* all.
C7_StepsWaitForPromise ==
  \A i \in 1..Len(log) :
    log[i].e = "promise" =>
      /\ \A j \in (i + 1)..Len(log) :
           log[j].e \in StepEvents => (SettledAt(i) # 0 /\ SettledAt(i) < j)
      /\ (SettledAt(i) # 0 /\ log[SettledAt(i)].e = "rejected") =>
           \A j \in (SettledAt(i) + 1)..Len(log) : log[j].e \notin StepEvents

\* the asynchronous preSubcommand hook of prog was fulfilled and the chain went on
\* to the action of leaf, whose later asynchronous postAction hook was rejected
C7_Witness ==
  /\ status = "rejected"
  /\ \E i, j, k \in 1..Len(log) :
       /\ i < j /\ j < k
       /\ log[i].e = "fulfilled"
       /\ log[j].e = "action"
       /\ log[k].e = "rejected"

(***************************************************************************)
(* Subcommand dispatch.                                                    *)
(***************************************************************************)
\* the registered children of c that a token names, by name or by alias
ChildrenNamed(c, token) ==
  {d \in CmdIds :
     /\ \E k \in 1..Len(cmds[c].commands) : cmds[c].commands[k] = d
     /\ \/ cmds[d].name = token
        \/ \E k \in 1..Len(cmds[d].aliases) : cmds[d].aliases[k] = token}

\* classification at position i of the log found a first operand naming a child
NamesChild(i) ==
  /\ log[i].e = "classified"
  /\ log[i].toks # <<>>
  /\ ChildrenNamed(log[i].c, log[i].toks[1]) # {}

\* the position where the parse of the command classified at i started
ParseStart(i) ==
  CHOOSE p \in 1..i :
    /\ log[p].e = "parseCommand"
    /\ log[p].c = log[i].c
    /\ \A q \in (p + 1)..i : ~(log[q].e = "parseCommand" /\ log[q].c = log[i].c)

\* the first position after i where a subcommand is parsed or spawned, 0 if none
NextDispatch(i) ==
  IF \E j \in (i + 1)..Len(log) : log[j].e \in {"parseCommand", "spawn"}
  THEN CHOOSE j \in (i + 1)..Len(log) :
         /\ log[j].e \in {"parseCommand", "spawn"}
         /\ \A q \in (i + 1)..(j - 1) : log[q].e \notin {"parseCommand", "spawn"}
  ELSE 0

\* the option signals of the command classified at i, between the start of its
\* parse and i
ParentSignals(i) ==
  {k \in ParseStart(i)..i : log[k].e = "option" /\ log[k].c = log[i].c}

\* the token at the position of signal k is a flag on its own and the value of the
\* signal is the token after it
TookNextToken(input, k) ==
  /\ log[k].v.k = "str"
  /\ log[k].at < Len(input)
  /\ log[k].v.s = input[log[k].at + 1]
  /\ \E o \in 1..Len(cmds[log[k].c].options) :
       /\ cmds[log[k].c].options[o].name = log[k].n
       /\ OptionIs(cmds[log[k].c].options[o], input[log[k].at])

\* the signals of the parent raised by the token at position k of its input
SignalsOfToken(i, k) == {q \in ParentSignals(i) : log[q].at = k}

\* the positions of the input whose token was taken as the value of the flag before
TakenAsValue(input, i) ==
  {log[k].at + 1 : k \in {q \in ParentSignals(i) : TookNextToken(input, q)}}

\* what the parent left of the token at position k: the token when it raised no
\* signal and was not taken as a value, the unread flags of a cluster of short
\* flags whose first flags were value-less options of the parent, nothing otherwise
Leftover(input, i, k) ==
  IF SignalsOfToken(i, k) = {}
  THEN IF k \in TakenAsValue(input, i) THEN <<>> ELSE <<input[k]>>
  ELSE IF /\ \A q \in SignalsOfToken(i, k) : log[q].v.k = "undef"
          /\ Cardinality(SignalsOfToken(i, k)) < Len(input[k]) - 1
          /\ input[k][2] # "-"
       THEN <<(<<"-">> \o SubSeq(input[k], Cardinality(SignalsOfToken(i, k)) + 2,
                                 Len(input[k])))>>
       ELSE <<>>

\* what the parent left of the tokens input[k..], in order
RECURSIVE Residue(_, _, _)
Residue(input, k, i) ==
  IF k > Len(input)
  THEN <<>>
  ELSE Leftover(input, i, k) \o Residue(input, k + 1, i)

\* the dispatch that follows the classification at i, when there is one, goes to
\* the named child with the operands after the first and the unknown tokens
DispatchedToChild(i) ==
  LET j == NextDispatch(i)
  IN j # 0 =>
       IF log[j].e = "parseCommand"
       THEN /\ log[j].c \in ChildrenNamed(log[i].c, log[i].toks[1])
            /\ log[j].toks = Tail(log[i].toks)
            /\ log[j].toks2 = log[i].toks2
       ELSE /\ log[j].c2 \in ChildrenNamed(log[i].c, log[i].toks[1])
            /\ log[j].toks = Tail(log[i].toks) \o log[i].toks2

\* C8: whenever the first operand classification produced names a registered child
\* by name or alias, the command's own action is not invoked and the child is
\* parsed (an executable child: spawned) with the operands after the first and the
\* unknown tokens; the options the parent recognised are stored on the parent with
\* source cli and their tokens are not among those handed to the child; and an
\* action that runs is the action of the command parsed last.
C8_FirstOperandDispatchesToChild ==
  \A i \in 1..Len(log) :
    /\ NamesChild(i) =>
         /\ \A j \in 1..Len(log) : ~(log[j].e = "action" /\ log[j].c = log[i].c)
         /\ DispatchedToChild(i)
         /\ status = "done" => NextDispatch(i) # 0
         /\ \A k \in ParentSignals(i) :
              log[k].n # "version" => cmds[log[i].c].optionValueSources[log[k].n] = "cli"
         /\ log[i].toks \o log[i].toks2 =
              log[ParseStart(i)].toks
              \o Residue(log[ParseStart(i)].toks2, 1, i)
    /\ log[i].e = "action" =>
         \E p \in 1..(i - 1) :
           /\ log[p].e = "parseCommand"
           /\ log[p].c = log[i].c
           /\ \A q \in (p + 1)..(i - 1) : log[q].e # "parseCommand"

\* prog --port 8 serve: the parent stored port 8 from the command line, serve was
\* parsed with no tokens left, and the action of serve ran
C8_Witness ==
  /\ status = "done"
  /\ argv = <<T_port, T_8, T_serve>>
  /\ cmds["prog"].optionValues["port"].s = T_8
  /\ cmds["prog"].optionValueSources["port"] = "cli"
  /\ \E i, j, a \in 1..Len(log) :
       /\ i < j /\ j < a
       /\ NamesChild(i)
       /\ log[i].c = "prog"
       /\ log[j].e = "parseCommand" /\ log[j].c = "serve"
       /\ log[j].toks = <<>> /\ log[j].toks2 = <<>>
       /\ log[a].e = "action" /\ log[a].c = "serve"

(***************************************************************************)
(* Parsing again: the application calls parse() MaxParses times on one     *)
(* tree whose exit callback throws, each call after the run of the call    *)
(* before it has ended.                                                    *)
(***************************************************************************)
ReparsePrograms ==
  {NestedProgram("default", hooks, "sync").cmds : hooks \in {"none", "async"}}

ReparseTokens == {T_serve, T_leaf, T_a, T_ab, T_p8, T_x}
ReparseArgvs == ListsUpTo(ReparseTokens, MaxArgv)

InitReparse ==
  /\ cmds \in ReparsePrograms
  /\ env = NoEnv
  /\ log = <<>>
  /\ status = "idle"
  /\ err = NoErr
  /\ promise = "none"
  /\ awaiting = ""
  /\ thens = <<>>
  /\ epoch = 0
  /\ argv = <<>>
  /\ prevArgv = <<>>
  /\ parsed = NoParsed
  /\ calls = MaxParses

NextReparse ==
  \/ \E args \in ReparseArgvs : Parse(args)
  \/ Resolve
  \/ Reject
  \/ ThenCallback

SpecReparse == InitReparse /\ [][NextReparse]_vars

\* the run of a parse() call after the first has ended
LaterParseEnded == epoch >= 2 /\ status \in {"done", "thrown", "rejected"}

\* the command was prepared (_prepareForParse) by the current parse
PreparedIn(lg, c) == \E i \in 1..Len(lg) : lg[i].e = "prepare" /\ lg[i].c = c

\* the command holds nothing an earlier parse produced: every option value is the
\* one from before the first parse, with its source, or was set by the current
\* parse, and the args and processedArgs entries are of the current parse
NothingStale(c) ==
  /\ \A key \in OptKeys :
       \/ cmds[c].optionValues[key].ep = epoch
       \/ /\ cmds[c].optionValues[key].ep = 0
          /\ cmds[c].optionValueSources[key] \in {"none", "default"}
  /\ cmds[c].args = <<>> \/ cmds[c].argsEpoch = epoch
  /\ \A k \in 1..Len(cmds[c].processedArgs) : cmds[c].processedArgs[k].ep \in {0, epoch}

\* C1 as stated: once a parse() call after the first has completed, no command of
\* the tree, dispatched to by that parse or not, holds an option value, a source,
\* an args entry or a processedArgs entry produced by an earlier parse.
C1_NoCommandHoldsStaleValues ==
  LaterParseEnded => \A c \in CmdIds : NothingStale(c)

\* what a parse leaves alone on a command it has not prepared
Untouched(c) ==
  /\ cmds'[c].optionValues = cmds[c].optionValues
  /\ cmds'[c].optionValueSources = cmds[c].optionValueSources
  /\ cmds'[c].args = cmds[c].args
  /\ cmds'[c].processedArgs = cmds[c].processedArgs

\* C1 amended: once a parse() call after the first has completed, the root and
\* every subcommand that parse dispatched to hold no option value, source, args
\* entry or processedArgs entry produced by an earlier parse; a subcommand the
\* parse has not dispatched to is not restored: it keeps the option values,
\* sources, args and processedArgs the earlier parse left on it.
C1_DispatchedCommandsHoldNoStaleValues ==
  /\ [](LaterParseEnded => \A c \in CmdIds : PreparedIn(log, c) => NothingStale(c))
  /\ [][\A c \in CmdIds : ~PreparedIn(log', c) => Untouched(c)]_vars

\* after prog serve -ab, which set a on prog and b on serve, the parse of prog serve
\* is done: prog and serve were restored and hold neither value
C1_Witness ==
  /\ epoch = 2
  /\ status = "done"
  /\ prevArgv = <<T_serve, T_ab>>
  /\ argv = <<T_serve>>
  /\ PreparedIn(log, "serve")
  /\ cmds["serve"].savedState.saved
  /\ cmds["prog"].optionValues["a"] = Undef
  /\ cmds["serve"].optionValues["b"] = Undef
  /\ cmds["serve"].optionValueSources["b"] = "none"

(***************************************************************************)
(* The classifier and negative numbers: parseOptions called on a command   *)
(* of a two-level tree, with or without an option whose short flag is a    *)
(* digit somewhere in the tree.                                            *)
(***************************************************************************)
T_n1 == <<"-", "1">>
T_n25 == <<"-", "2", ".", "5">>
T_one == <<"-", "-", "o", "n", "e">>

\* .option("-1, --one"): its value is kept under the key of -b
OptDigit == MkOption("-1, --one", <<T_n1>>, <<T_one>>, "b", "boolean")

NumTokens == {T_n1, T_n25, T_u, T_x, T_port, T_o, T_l, T_dd, T_serve}
NumArgs == ListsUpTo(NumTokens, MaxLen)

\* program.option(...).command("serve").option(...): digit says which command, if
\* any, has the option -1
NumProgram(digit, positional) ==
  LET own == <<OptPort, OptOpt, OptList>>
      t1 == addOptions(exitOverride(NewTree, "prog", "default"), "prog",
                       IF digit = "prog" THEN Append(own, OptDigit) ELSE own)
      t2 == [t1 EXCEPT !.cmds["prog"].enablePositionalOptions = positional]
      t3 == command(t2, "prog", "serve", T_serve, FALSE, FALSE)
  IN action(addOptions(t3, "serve", IF digit = "serve" THEN Append(own, OptDigit) ELSE own),
            "serve", "sync").cmds

NumConfigs ==
  {NumProgram(digit, positional) : digit \in {"none", "prog", "serve"}, positional \in BOOLEAN}

InitNum ==
  /\ cmds \in NumConfigs
  /\ env = NoEnv
  /\ log = <<>>
  /\ status = "idle"
  /\ err = NoErr
  /\ promise = "none"
  /\ awaiting = ""
  /\ thens = <<>>
  /\ epoch = 0
  /\ argv = <<>>
  /\ prevArgv = <<>>
  /\ parsed = NoParsed
  /\ calls = 1

\* cmd.parseOptions(args), on the root or on its subcommand
CallParseOptionsOn(c, args) ==
  /\ status = "idle"
  /\ calls > 0
  /\ Returned(parseOptions([World EXCEPT !.status = "running", !.epoch = @ + 1], c, args), c)
  /\ argv' = args
  /\ prevArgv' = argv
  /\ calls' = calls - 1

NextNum == \E c \in {"prog", "serve"}, args \in NumArgs : CallParseOptionsOn(c, args)

SpecNum == InitNum /\ [][NextNum]_vars

\* an option of the command or of one of its ancestors has a short flag -<digit>
DigitFlagInChain(c) ==
  LET anc == _getCommandAndAncestors(World, c)
  IN \E k \in 1..Len(anc) :
       \E j \in 1..Len(cmds[anc[k]].options) :
         LET short == cmds[anc[k]].options[j].short
         IN short # <<>> /\ DigitShortFlag(short[1])

\* the token at position k was taken as the value of an option: by the variadic
\* option being collected, or by the option just before it
ConsumedAsValue(k) ==
  \/ k \in parsed.scanned /\ \E q \in 1..Len(log) :
       log[q].e = "option" /\ log[q].at = k /\ log[q].v.s = argv[k]
  \/ k \notin parsed.scanned /\ \E q \in 1..Len(log) :
       log[q].e = "option" /\ log[q].at = k - 1 /\ log[q].v.s = argv[k]

\* a negative number among the input that no option took as its value
FreeNegativeNumber(k) ==
  /\ k \in 1..Len(argv)
  /\ NegativeNumberPattern(argv[k])
  /\ ~ConsumedAsValue(k)

\* the place in operands of the token at position k, when every token the scan met
\* up to it and left alone went to operands
OperandIndex(k) ==
  Cardinality({j \in parsed.scanned : j <= k /\ argv[j] # T_dd /\ SignalsAt(j) = <<>>})

\* the token at position k is in operands, at its place
InOperands(k) ==
  /\ OperandIndex(k) \in 1..Len(parsed.operands)
  /\ parsed.operands[OperandIndex(k)] = argv[k]

\* C11, as stated: for every command, with or without subcommands, in whose ancestor
\* chain no option has a single-digit short flag, a negative-number token that is
\* not consumed as an option value is placed in operands, never in unknown, and
\* never switches the classifier into collecting unknown tokens.
C11_NegativeNumberIsAlwaysOperand ==
  (parsed.called /\ ~DigitFlagInChain(parsed.on)) =>
    \A k \in 1..Len(argv) :
      FreeNegativeNumber(k) =>
        /\ parsed.switched # k
        /\ status = "done" => (k \in parsed.scanned /\ InOperands(k))

\* C11, amended: for a command without subcommands in whose ancestor chain no option
\* has a single-digit short flag, a negative-number token that the scan reaches, that
\* is not consumed as an option value, never switches the classifier into collecting
\* unknown tokens, and is placed in operands unless an earlier token switched it; on
\* a command with subcommands such a token, reached while operands are collected,
\* is the one that switches the classifier.
C11_NegativeNumberIsOperandOfLeaf ==
  (parsed.called /\ ~DigitFlagInChain(parsed.on)) =>
    \A k \in parsed.scanned :
      FreeNegativeNumber(k) =>
        IF Len(cmds[parsed.on].commands) = 0
        THEN /\ parsed.switched # k
             /\ (status = "done" /\ (parsed.switched = 0 \/ k < parsed.switched))
                  => InOperands(k)
        ELSE (parsed.switched = 0 \/ k <= parsed.switched) => parsed.switched = k

\* a leaf command was given a free negative number after another operand, and kept both
C11_Witness ==
  /\ parsed.called
  /\ status = "done"
  /\ parsed.on = "serve"
  /\ ~DigitFlagInChain("serve")
  /\ parsed.switched = 0
  /\ \E k \in parsed.scanned : k > 1 /\ FreeNegativeNumber(k) /\ InOperands(k)
  /\ \E k \in 1..Len(argv) : NegativeNumberPattern(argv[k]) /\ ConsumedAsValue(k)

(***************************************************************************)
(* Programs with declared command-arguments, parsed once.                  *)
(***************************************************************************)
\* the lists of declared arguments: none, <x>, [x], <x> <y>, [x] <y>, <x> [y...],
\* <x...>
ArgDecls ==
  {<<>>,
   <<MkArgument("x", TRUE, FALSE)>>,
   <<MkArgument("x", FALSE, FALSE)>>,
   <<MkArgument("x", TRUE, FALSE), MkArgument("y", TRUE, FALSE)>>,
   <<MkArgument("x", FALSE, FALSE), MkArgument("y", TRUE, FALSE)>>,
   <<MkArgument("x", TRUE, FALSE), MkArgument("y", FALSE, TRUE)>>,
   <<MkArgument("x", TRUE, TRUE)>>}

ArgShapes == {"action", "plain", "parent", "sub", "exec"}

\* the command that declares the arguments: the root, with an action ("action"),
\* without one ("plain"), or without one and with a subcommand ("parent"); or the
\* subcommand serve, with an action ("sub") or as an executable ("exec")
ArgTree(exit, shape, decl, allowExcess) ==
  LET t1 == addOptions(exitOverride(NewTree, "prog", exit), "prog", <<OptA>>)
      on == IF shape \in {"sub", "exec"} THEN "serve" ELSE "prog"
      t2 == CASE shape = "action" -> action(t1, "prog", "sync")
              [] shape = "plain" -> t1
              [] shape = "parent" ->
                   action(command(t1, "prog", "serve", T_serve, FALSE, FALSE), "serve", "sync")
              [] shape = "sub" ->
                   action(command(t1, "prog", "serve", T_serve, FALSE, FALSE), "serve", "sync")
              [] OTHER -> command(t1, "prog", "serve", T_serve, TRUE, FALSE)
  IN allowExcessArguments(addArguments(t2, on, decl), on, allowExcess)

\* the programs; some of those with an action also allow unknown options
ArgPrograms ==
  {ArgTree(exit, shape, decl, allowExcess).cmds :
     exit \in {"none", "default"}, shape \in ArgShapes, decl \in ArgDecls,
     allowExcess \in BOOLEAN}
  \cup {allowUnknownOption(ArgTree("default", "action", decl, FALSE), "prog", TRUE).cmds :
          decl \in ArgDecls}

ArgTokens == {T_x, T_y, T_u, T_helpflag, T_serve}
ArgArgvs == ListsUpTo(ArgTokens, MaxArgv + 1)

InitArgs ==
  /\ cmds \in ArgPrograms
  /\ env = NoEnv
  /\ log = <<>>
  /\ status = "idle"
  /\ err = NoErr
  /\ promise = "none"
  /\ awaiting = ""
  /\ thens = <<>>
  /\ epoch = 0
  /\ argv = <<>>
  /\ prevArgv = <<>>
  /\ parsed = NoParsed
  /\ calls = 1

NextArgs ==
  \/ \E args \in ArgArgvs : Parse(args)
  \/ \E c \in CmdIds, code \in ExitCodes : ChildClose(c, code)

SpecArgs == InitArgs /\ [][NextArgs]_vars

(***************************************************************************)
(* The number of command-arguments.                                        *)
(***************************************************************************)
\* the command of event i has fixed its arguments and resolves the parse itself: the
\* first operand names no child of it and not its help command, and it has no
\* default child
ResolvedHere(i) ==
  /\ log[i].e = "classified"
  /\ log[i].toks = <<>> \/ _findCommand(World, log[i].c, log[i].toks[1]) = <<>>
  /\ \/ log[i].toks = <<>>
     \/ _getHelpCommand(World, log[i].c) = <<>>
     \/ log[i].toks[1] # _getHelpCommand(World, log[i].c)[1]
  /\ cmds[log[i].c].defaultCommandName = <<>>

\* the lowest index of a required declared argument of c without a token among
\* args, 0 when there is none
FirstMissing(c, args) ==
  LET registered == cmds[c].registeredArguments
      Gap(k) == registered[k].required /\ k > Len(args)
  IN IF \E k \in 1..Len(registered) : Gap(k)
     THEN CHOOSE k \in 1..Len(registered) : Gap(k) /\ \A j \in 1..(k - 1) : ~Gap(j)
     ELSE 0

\* the action handler of c was invoked
ActionInvoked(c) == \E j \in 1..Len(log) : log[j].e = "action" /\ log[j].c = c

\* the positions where an error of a category was written
ErrorsOf(code) ==
  {j \in 1..Len(log) :
     /\ log[j].e = "outputError"
     /\ \E k \in (j + 1)..Len(log) : log[k].e = "_exit" /\ log[k].code = code
                                     /\ log[k].m = log[j].m}

\* the parse ended for command c with the given category and exit code 1, after one
\* message
EndedWith(c, code) ==
  /\ status \in {"exited", "thrown"}
  /\ Cardinality(OutputErrors) = 1
  /\ Cardinality(ErrorsOf(code)) = 1
  /\ \E k \in 1..Len(log) : log[k].e = "_exit" /\ log[k].c = c /\ log[k].code = code
                            /\ log[k].x = 1

\* the missingArgument error for command c names its first missing argument
MissingPositionalReported(c, args) ==
  /\ EndedWith(c, "commander.missingArgument")
  /\ \A k \in 1..Len(log) :
       log[k].e = "_exit" =>
         log[k].m.n = cmds[c].registeredArguments[FirstMissing(c, args)].name
  /\ ~ActionInvoked(c)

\* the categories of the checks _parseCommand makes before the number of arguments
EarlierChecks ==
  {"commander.help", "commander.helpDisplayed", "commander.missingMandatoryOptionValue",
   "commander.conflictingOption", "commander.unknownOption", "commander.unknownCommand"}

\* no check that comes before the number of arguments ended the parse
NoEarlierCheckEnded == \A k \in 1..Len(log) : log[k].e = "_exit" => log[k].code \notin EarlierChecks

LastIsVariadic(c) ==
  LET registered == cmds[c].registeredArguments
  IN Len(registered) > 0 /\ registered[Len(registered)].variadic

\* the excessArguments error for command c reports the expected and the actual number
ExcessReported(c, expected, got) ==
  /\ EndedWith(c, "commander.excessArguments")
  /\ \A k \in 1..Len(log) :
       log[k].e = "_exit" => (log[k].m.expected = expected /\ log[k].m.got = got)

\* an excessArguments error is only raised for a command that does not allow excess
\* arguments and whose last declared argument is not variadic
ExcessOnlyWhenChecked ==
  \A k \in 1..Len(log) :
    (log[k].e = "_exit" /\ log[k].code = "commander.excessArguments") =>
      /\ ~cmds[log[k].c].allowExcessArguments
      /\ ~LastIsVariadic(log[k].c)
      /\ log[k].m.got > Len(cmds[log[k].c].registeredArguments)

OptShapes == {"leaf", "subOwn", "subAnc", "exec"}

\* -a, -b (conflicts with -a) and the mandatory -p, --port <n>, declared on the root
\* ("leaf": the root has the action; "subAnc": its subcommand serve has it; "exec":
\* serve is an executable) or on serve itself ("subOwn").  portSource says where
\* else than the command line a value of port comes from: nowhere, a default, the
\* environment variable PORT, or a value implied by -a.  defaulted names the one of
\* -a and -b that has a default value, if any.
OptTree(exit, shape, portSource, defaulted) ==
  LET aOpt == [OptA EXCEPT !.implied = IF portSource = "implied"
                                       THEN <<[key |-> "port", value |-> Str(T_8, 0)]>>
                                       ELSE <<>>,
                           !.defaultValue = IF defaulted = "a" THEN Bool(TRUE, 0) ELSE Undef]
      bOpt == [OptB EXCEPT !.conflictsWith = {"a"},
                           !.defaultValue = IF defaulted = "b" THEN Bool(TRUE, 0) ELSE Undef]
      portOpt == [OptPort EXCEPT !.mandatory = TRUE,
                                 !.defaultValue = IF portSource = "default"
                                                  THEN Str(T_8, 0) ELSE Undef,
                                 !.envVar = IF portSource = "env" THEN "PORT" ELSE ""]
      t0 == exitOverride(NewTree, "prog", exit)
      t1 == CASE shape = "leaf" -> action(t0, "prog", "sync")
              [] shape = "exec" -> command(t0, "prog", "serve", T_serve, TRUE, FALSE)
              [] OTHER ->
                   action(command(t0, "prog", "serve", T_serve, FALSE, FALSE), "serve", "sync")
  IN addOptions(t1, IF shape = "subOwn" THEN "serve" ELSE "prog", <<aOpt, bOpt, portOpt>>)

\* the programs, each with the environment it runs in
OptConfigs ==
  {[cmds |-> OptTree(exit, shape, portSource, defaulted).cmds,
    env |-> [NoEnv EXCEPT !.vars = IF portSource = "env" THEN {"PORT"} ELSE {}]] :
     exit \in {"none", "default"}, shape \in OptShapes,
     portSource \in {"none", "default", "env", "implied"},
     defaulted \in {"none", "a", "b"}}

OptTokens == {T_a, T_b, T_p8, T_u, T_serve, T_helpflag}
OptArgvs == ListsUpTo(OptTokens, MaxArgv + 1)

InitOpts ==
  /\ \E cfg \in OptConfigs : cmds = cfg.cmds /\ env = cfg.env
  /\ log = <<>>
  /\ status = "idle"
  /\ err = NoErr
  /\ promise = "none"
  /\ awaiting = ""
  /\ thens = <<>>
  /\ epoch = 0
  /\ argv = <<>>
  /\ prevArgv = <<>>
  /\ parsed = NoParsed
  /\ calls = 1

NextOpts ==
  \/ \E args \in OptArgvs : Parse(args)
  \/ \E c \in CmdIds, code \in ExitCodes : ChildClose(c, code)

SpecOpts == InitOpts /\ [][NextOpts]_vars

(***************************************************************************)
(* Mandatory options.                                                      *)
(***************************************************************************)
\* the command of event i consumes its own tokens: it resolves the parse itself and
\* is not a command with subcommands, no action handler and no argument at all
ConsumesOwnTokens(i) ==
  /\ ResolvedHere(i)
  /\ ~(/\ Len(cmds[log[i].c].commands) > 0
       /\ log[i].toks \o log[i].toks2 = <<>>
       /\ cmds[log[i].c].actionHandler = "none")

\* the command of event i launches an executable subcommand
LaunchesExecutable(i) ==
  /\ log[i].e = "classified"
  /\ log[i].toks # <<>>
  /\ _findCommand(World, log[i].c, log[i].toks[1]) # <<>>
  /\ cmds[_findCommand(World, log[i].c, log[i].toks[1])[1]].executableHandler

\* the help flag of the command of event i is among its unknown tokens
HelpFlagGiven(i) ==
  /\ cmds[log[i].c].helpOption # <<>>
  /\ \E k \in 1..Len(log[i].toks2) : OptionIs(cmds[log[i].c].helpOption[1], log[i].toks2[k])

\* the commands from c up to the root, as a set
Chain(c) == {_getCommandAndAncestors(World, c)[k] : k \in 1..Len(_getCommandAndAncestors(World, c))}

\* the mandatory options without a value, as pairs <<command, option number>>
MandatoryWithoutValue(c) ==
  {p \in UNION {{<<a, j>> : j \in 1..Len(cmds[a].options)} : a \in Chain(c)} :
     /\ cmds[p[1]].options[p[2]].mandatory
     /\ cmds[p[1]].optionValues[cmds[p[1]].options[p[2]].key].k = "undef"}

\* the parse ended with a missingMandatoryOptionValue error of exit code 1 for a
\* mandatory option without a value, and no action was invoked
MissingMandatoryReported(c) ==
  /\ status \in {"exited", "thrown"}
  /\ Cardinality(OutputErrors) = 1
  /\ \E k \in 1..Len(log), p \in MandatoryWithoutValue(c) :
       /\ log[k].e = "_exit"
       /\ log[k].c = p[1]
       /\ log[k].code = "commander.missingMandatoryOptionValue"
       /\ log[k].x = 1
       /\ log[k].m.n = cmds[p[1]].options[p[2]].flags
  /\ \A j \in 1..Len(log) : log[j].e # "action"

\* a missingMandatoryOptionValue error is about a mandatory option without a value
MandatoryErrorsAreMissing ==
  \A k \in 1..Len(log) :
    (log[k].e = "_exit" /\ log[k].code = "commander.missingMandatoryOptionValue") =>
      \E p \in MandatoryWithoutValue(log[k].c) :
        p[1] = log[k].c /\ cmds[p[1]].options[p[2]].flags = log[k].m.n

\* C13, as stated: when a command consumes its own tokens or launches an executable
\* subcommand, if a mandatory option of that command or of one of its ancestors has
\* no value after cli, env, implied and default resolution, the parse terminates
\* with category commander.missingMandatoryOptionValue and exit code 1 and the
\* action is not invoked; a mandatory option that has a value from any source,
\* a default included, never raises this error.
C13_MissingMandatoryAlwaysReported ==
  /\ \A i \in 1..Len(log) :
       ((ConsumesOwnTokens(i) \/ LaunchesExecutable(i))
          /\ MandatoryWithoutValue(log[i].c) # {})
         => MissingMandatoryReported(log[i].c)
  /\ MandatoryErrorsAreMissing

\* C13, amended: the same, unless the command consumes its own tokens and its help
\* flag is among the unknown tokens: then help is displayed (helpDisplayed, exit
\* code 0) before the mandatory options are looked at.  A command that launches an
\* executable subcommand makes the check without looking for the help flag.
C13_MissingMandatoryReportedUnlessHelp ==
  /\ \A i \in 1..Len(log) :
       /\ (/\ (ConsumesOwnTokens(i) /\ ~HelpFlagGiven(i)) \/ LaunchesExecutable(i)
           /\ MandatoryWithoutValue(log[i].c) # {})
            => MissingMandatoryReported(log[i].c)
       /\ (ConsumesOwnTokens(i) /\ HelpFlagGiven(i)) =>
            \E k \in 1..Len(log) : /\ log[k].e = "_exit"
                                   /\ log[k].code = "commander.helpDisplayed"
                                   /\ log[k].x = 0
  /\ MandatoryErrorsAreMissing

\* a subcommand with an action consumed its tokens while the mandatory option of its
\* parent had no value: the error was raised for the parent and the action did not
\* run
C13_Witness ==
  \E i \in 1..Len(log) :
    /\ ConsumesOwnTokens(i)
    /\ log[i].c = "serve"
    /\ <<"prog", 3>> \in MandatoryWithoutValue("serve")
    /\ MissingMandatoryReported("serve")

(***************************************************************************)
(* Conflicting options.                                                    *)
(***************************************************************************)
\* option number j of command a has a defined value whose source is not "default"
DefinedNonDefault(a, j) ==
  /\ cmds[a].optionValues[cmds[a].options[j].key].k # "undef"
  /\ cmds[a].optionValueSources[cmds[a].options[j].key] # "default"

\* the triples <<command, j, k>>: options j and k of one command of the chain of c
\* both have a defined value that is not a default, and j lists the key of k in its
\* conflict set
ConflictsIn(c) ==
  {p \in UNION {{<<a, j, k>> : j \in 1..Len(cmds[a].options), k \in 1..Len(cmds[a].options)} :
                  a \in Chain(c)} :
     /\ p[2] # p[3]
     /\ DefinedNonDefault(p[1], p[2])
     /\ DefinedNonDefault(p[1], p[3])
     /\ cmds[p[1]].options[p[3]].key \in cmds[p[1]].options[p[2]].conflictsWith}

\* the name an option has in the message: its flags, or its environment variable
NamedAs(option, name) == name = option.flags \/ (option.envVar # "" /\ name = option.envVar)

\* the positions where a conflictingOption error ended the parse
ConflictErrors ==
  {k \in 1..Len(log) : log[k].e = "_exit" /\ log[k].code = "commander.conflictingOption"}

\* the error at position k is about a conflict in the chain of c and names both
\* options
AboutConflictIn(k, c) ==
  \E p \in ConflictsIn(c) :
    /\ log[k].c = p[1]
    /\ log[k].x = 1
    /\ NamedAs(cmds[p[1]].options[p[2]], log[k].m.n)
    /\ NamedAs(cmds[p[1]].options[p[3]], log[k].m.n2)

\* the positions where a command resolved the parse: by itself, or by launching an
\* executable subcommand
Resolutions == {i \in 1..Len(log) : ResolvedHere(i) \/ LaunchesExecutable(i)}

\* C14, as stated: a commander.conflictingOption error is raised if and only if, on
\* the resolved command or one of its ancestors, two options of the same command
\* both have a defined value whose source is not "default" and one of them lists
\* the other's key in its conflict set; an option whose value comes only from its
\* default never takes part, and the message names both options.
C14_ConflictRaisedIffPresent ==
  /\ (ConflictErrors # {}) <=> (\E i \in Resolutions : ConflictsIn(log[i].c) # {})
  /\ \A k \in ConflictErrors : \E i \in Resolutions : AboutConflictIn(k, log[i].c)

\* C14, amended: a commander.conflictingOption error is raised only if, on the
\* resolved command or one of its ancestors, two options of the same command both
\* have a defined value whose source is not "default" and one of them lists the
\* other's key in its conflict set; the message names both options, and an option
\* whose value comes only from its default never takes part.  When there is such a
\* pair the error is raised (exit code 1) unless an earlier check ends the parse:
\* the help of a command with subcommands, no action and no arguments, the help
\* flag among the unknown tokens of a command that consumes its own tokens, or a
\* mandatory option without a value.
C14_ConflictRaisedUnlessEndedEarlier ==
  /\ \A k \in ConflictErrors : \E i \in Resolutions : AboutConflictIn(k, log[i].c)
  /\ \A i \in 1..Len(log) :
       (/\ (ConsumesOwnTokens(i) /\ ~HelpFlagGiven(i)) \/ LaunchesExecutable(i)
        /\ ConflictsIn(log[i].c) # {}
        /\ MandatoryWithoutValue(log[i].c) = {})
         => /\ ConflictErrors # {}
            /\ status \in {"exited", "thrown"}
            /\ \A j \in 1..Len(log) : log[j].e # "action"

\* a subcommand resolved the parse while -a and -b of its parent were both given:
\* the error named -b and -a
C14_Witness ==
  \E i \in Resolutions, k \in ConflictErrors :
    /\ log[i].c = "serve"
    /\ log[k].c = "prog"
    /\ AboutConflictIn(k, "serve")
    /\ log[k].m.n = OptB.flags
    /\ log[k].m.n2 = OptA.flags

(***************************************************************************)
(* Programs with subcommands and no action of their own, parsed once: with *)
(* a default subcommand or without, in a process whose exit code is unset  *)
(* or already set.                                                         *)
(***************************************************************************)
DispatchKinds == {"none", "lenient", "strict", "exec", "nested"}

\* program.version().option("-a"), with the subcommands leaf and serve; kind says
\* what serve is: an ordinary subcommand ("none"), the default subcommand with an
\* action ("strict"), the same allowing unknown options and excess arguments
\* ("lenient"), a default executable subcommand ("exec"), or a subcommand without
\* an action that has leaf as its own subcommand ("nested")
DispatchTree(exit, kind, positional) ==
  LET t0 == version(addOptions(exitOverride(NewTree, "prog", exit), "prog", <<OptA>>), "prog")
      t1 == [t0 EXCEPT !.cmds["prog"].enablePositionalOptions = positional]
      other(t) == action(command(t, "prog", "leaf", T_leaf, FALSE, FALSE), "leaf", "sync")
      t2 == command(other(t1), "prog", "serve", T_serve, kind = "exec",
                    kind \in {"lenient", "strict", "exec"})
      t3 == command(t1, "prog", "serve", T_serve, FALSE, FALSE)
  IN CASE kind = "exec" -> t2
       [] kind = "nested" ->
            action(command(t3, "serve", "leaf", T_leaf, FALSE, FALSE), "leaf", "sync")
       [] kind = "lenient" ->
            action(allowExcessArguments(allowUnknownOption(t2, "serve", TRUE), "serve", TRUE),
                   "serve", "sync")
       [] OTHER -> action(t2, "serve", "sync")

\* the programs, each with the process.exitCode it starts with
DispatchConfigs ==
  {[cmds |-> DispatchTree(exit, kind, positional).cmds,
    env |-> [NoEnv EXCEPT !.exitCode = exitCode]] :
     exit \in {"none", "default"}, kind \in DispatchKinds, positional \in BOOLEAN,
     exitCode \in {0, 2}}

DispatchTokens == {T_x, T_u, T_a, T_helpflag, T_help, T_serve, T_leaf, T_V}
DispatchArgvs == ListsUpTo(DispatchTokens, MaxArgv)

InitDispatch ==
  /\ \E cfg \in DispatchConfigs : cmds = cfg.cmds /\ env = cfg.env
  /\ log = <<>>
  /\ status = "idle"
  /\ err = NoErr
  /\ promise = "none"
  /\ awaiting = ""
  /\ thens = <<>>
  /\ epoch = 0
  /\ argv = <<>>
  /\ prevArgv = <<>>
  /\ parsed = NoParsed
  /\ calls = 1

NextDispatchSpec ==
  \/ \E args \in DispatchArgvs : Parse(args)
  \/ \E c \in CmdIds, code \in ExitCodes : ChildClose(c, code)

SpecDispatch == InitDispatch /\ [][NextDispatchSpec]_vars

(***************************************************************************)
(* The default subcommand.                                                 *)
(***************************************************************************)
\* the command of event i has a default child, and its first operand, if any, names
\* no child of it and is not the name of its help command
LeftToDefault(i) ==
  /\ log[i].e = "classified"
  /\ cmds[log[i].c].defaultCommandName # <<>>
  /\ log[i].toks = <<>> \/ _findCommand(World, log[i].c, log[i].toks[1]) = <<>>
  /\ \/ log[i].toks = <<>>
     \/ _getHelpCommand(World, log[i].c) = <<>>
     \/ log[i].toks[1] # _getHelpCommand(World, log[i].c)[1]

\* the default child of a command
DefaultChild(c) == _findCommand(World, c, cmds[c].defaultCommandName)[1]

\* after event i the default child was handed the operands and the unknown tokens of
\* event i as they were: to its own parse, or to the process spawned for it
HandedToDefault(i) ==
  \E j \in (i + 1)..Len(log) :
    \/ /\ log[j].e = "parseCommand"
       /\ log[j].c = DefaultChild(log[i].c)
       /\ log[j].toks = log[i].toks
       /\ log[j].toks2 = log[i].toks2
       /\ \A q \in (i + 1)..(j - 1) : log[q].e \in {"prepare", "hook"}
    \/ /\ log[j].e = "spawn"
       /\ log[j].c2 = DefaultChild(log[i].c)
       /\ log[j].toks = log[i].toks \o log[i].toks2
       /\ \A q \in (i + 1)..(j - 1) : log[q].e \in {"prepare", "hook"}

\* after event i the help of the command was displayed on request, and nothing else
\* was done
HelpDisplayedAt(i) ==
  /\ Len(log) >= i + 2
  /\ log[i + 1].e = "outputHelp" /\ log[i + 1].c = log[i].c /\ log[i + 1].n = "writeOut"
  /\ log[i + 2].e = "_exit" /\ log[i + 2].c = log[i].c /\ log[i + 2].x = 0
  /\ log[i + 2].code = "commander.helpDisplayed"
  /\ \A j \in (i + 1)..Len(log) : log[j].e \notin {"parseCommand", "spawn", "action"}

\* C16, as stated: for a command with a default child, whenever the first operand
\* names no registered child and is not the help-command name (no operand at all
\* included), all operands and unknown tokens of this level are passed unmodified
\* and in order to the default child, whose action is invoked; but if the help
\* flag of this level is among the unknown tokens, this level's help is displayed
\* (helpDisplayed, exit code 0) and the default child is not dispatched.
C16_DefaultChildActionAlwaysInvoked ==
  \A i \in 1..Len(log) :
    LeftToDefault(i) =>
      IF HelpFlagGiven(i)
      THEN HelpDisplayedAt(i)
      ELSE HandedToDefault(i) /\ ActionInvoked(DefaultChild(log[i].c))

\* C16, amended: the tokens are passed to the default child as stated, and the help
\* flag pre-empts it as stated; the action of the default child is invoked unless
\* the child's own parse of these tokens ends with an error or with help, or the
\* child is an executable subcommand, which is spawned with the tokens.
C16_DefaultChildDispatched ==
  \A i \in 1..Len(log) :
    LeftToDefault(i) =>
      IF HelpFlagGiven(i)
      THEN HelpDisplayedAt(i)
      ELSE /\ HandedToDefault(i)
           /\ \/ ActionInvoked(DefaultChild(log[i].c))
              \/ cmds[DefaultChild(log[i].c)].executableHandler
              \/ /\ status \in {"exited", "thrown"}
                 /\ \E k \in (i + 1)..Len(log) :
                      log[k].e = "_exit" /\ log[k].c = DefaultChild(log[i].c)

\* with a default child that allows them, an operand that names no child and an
\* unknown option were handed over and the action of the default child ran
C16_Witness ==
  \E i \in 1..Len(log) :
    /\ LeftToDefault(i)
    /\ log[i].toks = <<T_x>>
    /\ log[i].toks2 = <<T_u>>
    /\ HandedToDefault(i)
    /\ ActionInvoked(DefaultChild(log[i].c))
    /\ status = "done"

(***************************************************************************)
(* Help for a command that has only subcommands.                           *)
(***************************************************************************)
\* the command of event i has a child, no action handler and no default child, and
\* was left without any argument
OnlySubcommandsNoArguments(i) ==
  /\ log[i].e = "classified"
  /\ Len(cmds[log[i].c].commands) > 0
  /\ cmds[log[i].c].actionHandler = "none"
  /\ cmds[log[i].c].defaultCommandName = <<>>
  /\ log[i].toks \o log[i].toks2 = <<>>

\* after event i the help of the command was written to the error channel and the
\* parse ended with category commander.help and the given exit code, with no error
\* message written and no action invoked
HelpAsErrorAt(i, exitCode) ==
  /\ Len(log) >= i + 2
  /\ log[i + 1].e = "outputHelp" /\ log[i + 1].c = log[i].c /\ log[i + 1].n = "writeErr"
  /\ log[i + 2].e = "_exit" /\ log[i + 2].c = log[i].c /\ log[i + 2].x = exitCode
  /\ log[i + 2].code = "commander.help"
  /\ status \in {"exited", "thrown"}
  /\ OutputErrors = {}
  /\ \A j \in 1..Len(log) : log[j].e = "_exit" => j = i + 2
  /\ \A j \in 1..Len(log) : log[j].e # "action"

\* C17, as stated: for every command that has at least one child, no action handler
\* and no default child, parsing it with no arguments at all renders help on the
\* error channel and terminates with category commander.help and exit code 1,
\* without raising any other error category and without invoking any action.
C17_NoArgumentsIsHelpWithExitCodeOne ==
  \A i \in 1..Len(log) : OnlySubcommandsNoArguments(i) => HelpAsErrorAt(i, 1)

\* C17, amended: the same, with exit code 1 when process.exitCode is unset or 0, and
\* with the value of process.exitCode as exit code when it is already set to
\* another value.
C17_NoArgumentsIsHelpAsError ==
  \A i \in 1..Len(log) :
    OnlySubcommandsNoArguments(i) =>
      HelpAsErrorAt(i, IF env.exitCode = 0 THEN 1 ELSE env.exitCode)

\* a subcommand that has only a subcommand of its own was named without anything
\* after it, in a process with no exit code set: its help went to the error channel
\* with exit code 1
C17_Witness ==
  \E i \in 1..Len(log) :
    /\ OnlySubcommandsNoArguments(i)
    /\ log[i].c = "serve"
    /\ env.exitCode = 0
    /\ HelpAsErrorAt(i, 1)

(***************************************************************************)
(* The exit codes of help and version.                                     *)
(***************************************************************************)
\* C18, as stated: every termination whose category is help, helpDisplayed or
\* version carries exit code 0, on every path that produces one of them.
C18_HelpAndVersionExitWithZero ==
  \A k \in 1..Len(log) :
    (log[k].e = "_exit" /\ log[k].code \in HelpCategories) => log[k].x = 0

\* C18, amended: every termination whose category is helpDisplayed or version
\* carries exit code 0.  A termination of category help carries the value of
\* process.exitCode when that is set to a value other than 0; otherwise it carries
\* 0 when the help was asked for (the help command) and 1 when the help was written
\* to the error channel (a command with only subcommands that got no subcommand).
C18_HelpDisplayedAndVersionExitWithZero ==
  \A k \in 1..Len(log) :
    /\ (log[k].e = "_exit" /\ log[k].code \in {"commander.helpDisplayed", "commander.version"})
         => log[k].x = 0
    /\ (log[k].e = "_exit" /\ log[k].code = "commander.help") =>
         /\ EvAt(k - 1).e = "outputHelp"
         /\ log[k].x = IF env.exitCode # 0
                       THEN env.exitCode
                       ELSE IF EvAt(k - 1).n = "writeErr" THEN 1 ELSE 0

\* in a process whose exit code was already set to 2, the version was asked for and
\* the termination carried exit code 0
C18_Witness ==
  /\ env.exitCode = 2
  /\ \E k \in 1..Len(log) :
       log[k].e = "_exit" /\ log[k].code = "commander.version" /\ log[k].x = 0

(***************************************************************************)
(* Declaring commands.  The application starts from the exported program   *)
(* (new Command()) and makes up to MaxCalls calls of new Command(name),    *)
(* command(), addCommand(), alias() and aliases(), on any of the objects   *)
(* it holds.  A call that throws ends the application: the states with     *)
(* status "idle" are those reached by calls that all returned.             *)
(***************************************************************************)
BuildNames == {T_serve, T_leaf}
BuildOrder == <<"prog", "serve", "leaf">>

\* the objects constructed so far
Objects == DOMAIN cmds

\* the identity the next constructed Command gets, in a sequence of 0 or 1
NextObject ==
  LET k == FindIndex(BuildOrder, LAMBDA id : id \notin Objects)
  IN IF k = 0 THEN <<>> ELSE <<BuildOrder[k]>>

InitBuild ==
  /\ cmds = [id \in {"prog"} |-> NewCommand(<<>>)]
  /\ env = NoEnv
  /\ log = <<>>
  /\ status = "idle"
  /\ err = NoErr
  /\ promise = "none"
  /\ awaiting = ""
  /\ thens = <<>>
  /\ epoch = 0
  /\ argv = <<>>
  /\ prevArgv = <<>>
  /\ parsed = NoParsed
  /\ calls = MaxCalls

\* the state a declaring call leaves, with the call in the history
Declared(w, ev) ==
  /\ cmds' = w.cmds
  /\ status' = IF Running(w) THEN "idle" ELSE w.status
  /\ err' = w.err
  /\ log' = Append(log, [ev EXCEPT !.code = IF Running(w) THEN "returned" ELSE "threw"])
  /\ calls' = calls - 1
  /\ UNCHANGED <<env, promise, awaiting, thens, epoch, argv, prevArgv, parsed>>

\* new Command(name), or new Command() when the name is empty
Construct(name) ==
  /\ status = "idle"
  /\ calls > 0
  /\ NextObject # <<>>
  /\ Declared([World EXCEPT !.cmds = [x \in Objects \cup {NextObject[1]} |->
                                       IF x = NextObject[1] THEN NewCommand(name) ELSE cmds[x]],
                            !.status = "running"],
              [Ev("new", NextObject[1]) EXCEPT !.tk = name])

\* c.command(name) or c.command(name, description), with or without isDefault
CallCommand(c, name, executable, isDefault) ==
  /\ status = "idle"
  /\ calls > 0
  /\ NextObject # <<>>
  /\ Declared(command([World EXCEPT !.status = "running"], c, NextObject[1], name,
                      executable, isDefault),
              [Ev("command", c) EXCEPT !.c2 = NextObject[1], !.tk = name])

\* c.addCommand(cmd) or c.addCommand(cmd, { isDefault: true })
CallAddCommand(c, cmd, isDefault) ==
  /\ status = "idle"
  /\ calls > 0
  /\ Declared(addCommand([World EXCEPT !.status = "running"], c, cmd, isDefault),
              [Ev("addCommand", c) EXCEPT !.c2 = cmd, !.n = cmds[cmd].parent])

\* c.alias(name)
CallAlias(c, name) ==
  /\ status = "idle"
  /\ calls > 0
  /\ Declared(alias([World EXCEPT !.status = "running"], c, name),
              [Ev("alias", c) EXCEPT !.tk = name])

\* c.aliases(names)
CallAliases(c, names) ==
  /\ status = "idle"
  /\ calls > 0
  /\ Declared(aliases([World EXCEPT !.status = "running"], c, names),
              [Ev("aliases", c) EXCEPT !.toks = names])

NextBuild ==
  \/ \E name \in BuildNames \cup {<<>>} : Construct(name)
  \/ \E c \in Objects, name \in BuildNames, executable, isDefault \in BOOLEAN :
       CallCommand(c, name, executable, isDefault)
  \/ \E c, cmd \in Objects, isDefault \in BOOLEAN : CallAddCommand(c, cmd, isDefault)
  \/ \E c \in Objects, name \in BuildNames : CallAlias(c, name)
  \/ \E c \in Objects, names \in ListsUpTo(BuildNames, MaxAliases) : CallAliases(c, names)

SpecBuild == InitBuild /\ [][NextBuild]_vars

\* the children list of a command, as a set
Children(p) == {cmds[p].commands[i] : i \in 1..Len(cmds[p].commands)}

\* the strings a command is known by: its name and its aliases
KnownBy(c) == {cmds[c].name} \cup {cmds[c].aliases[k] : k \in 1..Len(cmds[c].aliases)}

\* C19: after calls of command(), addCommand(), alias() and aliases() that all
\* returned, no string is the name or an alias of two distinct children of one
\* command, and no child has an alias equal to its own name.
C19_NamesAndAliasesUniqueAmongChildren ==
  status = "idle" =>
    \A p \in Objects :
      /\ \A a, b \in Children(p) : a # b => KnownBy(a) \cap KnownBy(b) = {}
      /\ \A a \in Children(p) :
           \A k \in 1..Len(cmds[a].aliases) : cmds[a].aliases[k] # cmds[a].name

\* C20: after calls of command() and addCommand() that all returned, each command
\* is in the children list of at most one command, and it is in the children list
\* of P exactly when its parent reference is P; a command added with addCommand
\* while it is a child of another parent is a child of the new parent only.
C20_ChildrenListsAgreeWithParent ==
  status = "idle" =>
    /\ \A c \in Objects : Cardinality({p \in Objects : c \in Children(p)}) <= 1
    /\ \A c, p \in Objects : c \in Children(p) <=> cmds[c].parent = p

(***************************************************************************)
(* Declaring positional arguments.  The application makes up to MaxCalls   *)
(* calls of argument(), arguments() and addArgument() on the program.  A   *)
(* call that throws ends the application.                                  *)
(***************************************************************************)
A_req == <<"<", "x", ">">>
A_opt == <<"[", "x", "]">>
A_reqVar == <<"<", "x", ".", ".", ".", ">">>
A_optVar == <<"[", "y", ".", ".", ".", "]">>
ArgNames == {A_req, A_opt, A_reqVar, A_optVar}

\* what accompanies the name: nothing, a default value, or a parser and a default value
ArgExtras ==
  {[parseArg |-> "none", defaultValue |-> Undef],
   [parseArg |-> "none", defaultValue |-> Str(T_x, 0)],
   [parseArg |-> "ok", defaultValue |-> Str(T_x, 0)]}

\* the lists of names in the string handed to arguments()
ArgNameLists == ListsUpTo(ArgNames, 2) \ {<<>>}

InitDeclare ==
  /\ cmds = [id \in {"prog"} |-> NewCommand(<<>>)]
  /\ env = NoEnv
  /\ log = <<>>
  /\ status = "idle"
  /\ err = NoErr
  /\ promise = "none"
  /\ awaiting = ""
  /\ thens = <<>>
  /\ epoch = 0
  /\ argv = <<>>
  /\ prevArgv = <<>>
  /\ parsed = NoParsed
  /\ calls = MaxCalls

\* program.argument(name), program.argument(name, description, defaultValue) or
\* program.argument(name, description, parseArg, defaultValue)
CallArgument(name, extra) ==
  /\ status = "idle"
  /\ calls > 0
  /\ Declared(argument([World EXCEPT !.status = "running"], "prog", name,
                       extra.parseArg, extra.defaultValue),
              [Ev("argument", "prog") EXCEPT !.tk = name])

\* program.arguments(names)
CallArguments(names) ==
  /\ status = "idle"
  /\ calls > 0
  /\ Declared(arguments([World EXCEPT !.status = "running"], "prog", names),
              [Ev("arguments", "prog") EXCEPT !.toks = names])

\* program.addArgument(new Argument(name)), after default() and argParser() on it
CallAddArgument(name, extra) ==
  /\ status = "idle"
  /\ calls > 0
  /\ Declared(addArgument([World EXCEPT !.status = "running"], "prog",
                          [createArgument(name) EXCEPT !.defaultValue = extra.defaultValue,
                                                       !.parseArg = extra.parseArg]),
              [Ev("addArgument", "prog") EXCEPT !.tk = name])

NextDeclare ==
  \/ \E name \in ArgNames, extra \in ArgExtras : CallArgument(name, extra)
  \/ \E names \in ArgNameLists : CallArguments(names)
  \/ \E name \in ArgNames, extra \in ArgExtras : CallAddArgument(name, extra)

SpecDeclare == InitDeclare /\ [][NextDeclare]_vars

\* the positionals registered on the program
Registered == cmds["prog"].registeredArguments

\* the last registered positional is variadic
EndsWithVariadic == Registered # <<>> /\ Registered[Len(Registered)].variadic

\* at most one registered positional is variadic, and it is the last one
VariadicOnlyLast == \A k \in 1..Len(Registered) : Registered[k].variadic => k = Len(Registered)

\* a call of argument(), arguments() or addArgument() is made in this step
RegistrationAttempt ==
  /\ Len(log') = Len(log) + 1
  /\ log'[Len(log')].e \in {"argument", "arguments", "addArgument"}

\* C21: after any calls of argument(), arguments() and addArgument(), at most one
\* registered positional is variadic and it is the last one; every attempt to
\* register a positional after a variadic one throws an Error and leaves the
\* registered positionals as they were.
C21_VariadicPositionalStaysLast ==
  /\ []VariadicOnlyLast
  /\ [][RegistrationAttempt /\ EndsWithVariadic =>
          /\ status' = "thrown"
          /\ err' = BuildError("only the last argument can be variadic")
          /\ cmds' = cmds]_vars

\* an attempt after a variadic positional has thrown, with two positionals registered
C21_Witness ==
  /\ status = "thrown"
  /\ err = BuildError("only the last argument can be variadic")
  /\ Len(Registered) = 2
  /\ EndsWithVariadic
  /\ log[Len(log)].e \in {"argument", "arguments", "addArgument"}

(***************************************************************************)
(* incrementNodeInspectorPort, called on process.execArgv before an        *)
(* executable subcommand is spawned.                                       *)
(***************************************************************************)
I_inspect == <<"-", "-", "i", "n", "s", "p", "e", "c", "t">>
I_brk == I_inspect \o <<"-", "b", "r", "k">>
I_port == I_inspect \o <<"-", "p", "o", "r", "t">>
I_unexpected == I_inspect \o <<"-", "u", "n", "e", "x", "p", "e", "c", "t", "e", "d">>
I_frozen == <<"-", "-", "f", "r", "o", "z", "e", "n">>
I_localhost == <<"1", "2", "7", ".", "0", ".", "0", ".", "1">>
I_9229 == <<"9", "2", "2", "9">>
DebugOptions == {I_inspect, I_brk, I_port}

DigitsInOrder == <<"0", "1", "2", "3", "4", "5", "6", "7", "8", "9">>

\* parseInt(s) of a string of decimal digits
RECURSIVE parseInt(_)
parseInt(s) ==
  IF s = <<>>
  THEN 0
  ELSE 10 * parseInt(SubSeq(s, 1, Len(s) - 1))
       + (CHOOSE d \in 0..9 : DigitsInOrder[d + 1] = s[Len(s)])

\* the decimal digits of a number, as a template literal writes it
RECURSIVE NumberToString(_)
NumberToString(n) ==
  IF n < 10
  THEN <<DigitsInOrder[n + 1]>>
  ELSE NumberToString(n \div 10) \o <<DigitsInOrder[(n % 10) + 1]>>

\* the three patterns of incrementNodeInspectorPort on one argument: the first
\* matches the bare --inspect and --inspect-brk, the second a debug option, "=" and
\* a value without ":", the third a debug option, "=", a host without ":", ":" and
\* digits.  debugOption is empty when none matches.
matchDebugOption(arg) ==
  LET eq == IndexOfEq(arg)
      option == IF eq = 0 THEN arg ELSE SubSeq(arg, 1, eq - 1)
      rest == IF eq = 0 THEN <<>> ELSE SubSeq(arg, eq + 1, Len(arg))
      colons == {k \in 1..Len(rest) : rest[k] = ":"}
      colon == IF colons = {} THEN 0 ELSE CHOOSE k \in colons : TRUE
      match == IF eq = 0
               THEN IF arg \in {I_inspect, I_brk} THEN "bare" ELSE "none"
               ELSE IF option \notin DebugOptions \/ rest = <<>>
                    THEN "none"
                    ELSE IF colons = {}
                         THEN IF AllDigits(rest) THEN "port" ELSE "host"
                         ELSE IF /\ Cardinality(colons) = 1
                                 /\ 1 < colon
                                 /\ colon < Len(rest)
                                 /\ AllDigits(SubSeq(rest, colon + 1, Len(rest)))
                              THEN "hostAndPort"
                              ELSE "none"
  IN [debugOption |-> IF match = "none" THEN <<>> ELSE option,
      debugHost |-> CASE match = "host" -> rest
                      [] match = "hostAndPort" -> SubSeq(rest, 1, colon - 1)
                      [] OTHER -> I_localhost,
      debugPort |-> CASE match = "port" -> rest
                      [] match = "hostAndPort" -> SubSeq(rest, colon + 1, Len(rest))
                      [] OTHER -> I_9229]

\* the function mapped over the arguments, without the test of the port "0"
incrementNodeInspectorPortArgZeroToo(arg) ==
  LET m == matchDebugOption(arg)
  IN IF IsPrefix(I_inspect, arg) /\ m.debugOption # <<>>
     THEN m.debugOption \o <<"=">> \o m.debugHost \o <<":">>
          \o NumberToString(parseInt(m.debugPort) + 1)
     ELSE arg

\* the function incrementNodeInspectorPort maps over the arguments
incrementNodeInspectorPortArg(arg) ==
  LET m == matchDebugOption(arg)
  IN IF IsPrefix(I_inspect, arg) /\ m.debugOption # <<>> /\ m.debugPort # <<"0">>
     THEN m.debugOption \o <<"=">> \o m.debugHost \o <<":">>
          \o NumberToString(parseInt(m.debugPort) + 1)
     ELSE arg

\* incrementNodeInspectorPort(args)
incrementNodeInspectorPort(args) ==
  [k \in 1..Len(args) |-> incrementNodeInspectorPortArg(args[k])]

\* the ports, of up to n digits
RECURSIVE PortsUpTo(_)
PortsUpTo(n) ==
  IF n = 0
  THEN {}
  ELSE {<<d>> : d \in {"0", "1", "9"}}
       \cup {p \o <<d>> : p \in PortsUpTo(n - 1), d \in {"0", "1", "9"}}

InspectHosts == {<<"h">>, <<"1", ".", "2">>}

\* what follows the name of an option in an argument of process.execArgv
InspectTails ==
  {<<>>, <<"=">>, <<"=", ":", "1">>, <<"=", "h", ":">>, <<"=", "h", ":", "x">>,
   <<"=", "a", ":", "b", ":", "1">>}
  \cup {<<"=">> \o p : p \in PortsUpTo(MaxDigits)}
  \cup {<<"=">> \o h : h \in InspectHosts}
  \cup {<<"=">> \o h \o <<":">> \o p : h \in InspectHosts, p \in PortsUpTo(MaxDigits)}

ExecArgs ==
  {o \o tail : o \in DebugOptions, tail \in InspectTails}
  \cup {I_unexpected, I_unexpected \o <<"=", "1">>, I_frozen, I_frozen \o <<"=", "1">>, T_x}

InitInspect ==
  /\ cmds = NewTree.cmds
  /\ env = NoEnv
  /\ log = <<>>
  /\ status = "idle"
  /\ err = NoErr
  /\ promise = "none"
  /\ awaiting = ""
  /\ thens = <<>>
  /\ epoch = 0
  /\ argv = <<>>
  /\ prevArgv = <<>>
  /\ parsed = NoParsed
  /\ calls = 1

\* incrementNodeInspectorPort(process.execArgv): the arguments and the result
CallIncrementNodeInspectorPort(args) ==
  /\ status = "idle"
  /\ calls > 0
  /\ log' = Append(log, [Ev("incrementNodeInspectorPort", "")
                           EXCEPT !.toks = args, !.toks2 = incrementNodeInspectorPort(args)])
  /\ argv' = args
  /\ calls' = calls - 1
  /\ UNCHANGED <<cmds, env, status, err, promise, awaiting, thens, epoch, prevArgv, parsed>>

NextInspect == \E args \in ListsUpTo(ExecArgs, MaxExecArgv) : CallIncrementNodeInspectorPort(args)

SpecInspect == InitInspect /\ [][NextInspect]_vars

\* a port of 0: the port written "0", or any port whose value is 0
PortOfZero(port, written) == IF written THEN port = <<"0">> ELSE parseInt(port) = 0

\* option=host:port+1, or the argument as it is for a port of 0
Incremented(arg, option, host, port, written) ==
  IF PortOfZero(port, written)
  THEN arg
  ELSE option \o <<"=">> \o host \o <<":">> \o NumberToString(parseInt(port) + 1)

\* the forms of an argument, and what it becomes
MappedAs(arg, out, written) ==
  LET WithPort == {o \in DebugOptions :
                     \E n \in 1..Len(arg) :
                       /\ arg = o \o <<"=">> \o SubSeq(arg, Len(arg) - n + 1, Len(arg))
                       /\ AllDigits(SubSeq(arg, Len(arg) - n + 1, Len(arg)))}
      WithHost == {o \in DebugOptions :
                     \E n \in 1..Len(arg) :
                       LET host == SubSeq(arg, Len(arg) - n + 1, Len(arg))
                       IN /\ arg = o \o <<"=">> \o host
                          /\ ~AllDigits(host)
                          /\ \A k \in 1..n : host[k] # ":"}
      WithBoth == {<<o, c>> \in DebugOptions \X (1..Len(arg)) :
                     /\ arg[c] = ":"
                     /\ c > Len(o) + 2
                     /\ c < Len(arg)
                     /\ SubSeq(arg, 1, Len(o) + 1) = o \o <<"=">>
                     /\ \A k \in (Len(o) + 2)..(c - 1) : arg[k] # ":"
                     /\ AllDigits(SubSeq(arg, c + 1, Len(arg)))}
  IN CASE arg \in {I_inspect, I_brk} ->
            out = arg \o <<"=">> \o I_localhost \o <<":", "9", "2", "3", "0">>
       [] WithPort # {} ->
            \A o \in WithPort :
              out = Incremented(arg, o, I_localhost, SubSeq(arg, Len(o) + 2, Len(arg)),
                                written)
       [] WithHost # {} ->
            \A o \in WithHost :
              out = o \o <<"=">> \o SubSeq(arg, Len(o) + 2, Len(arg))
                      \o <<":", "9", "2", "3", "0">>
       [] WithBoth # {} ->
            \A oc \in WithBoth :
              out = Incremented(arg, oc[1], SubSeq(arg, Len(oc[1]) + 2, oc[2] - 1),
                                SubSeq(arg, oc[2] + 1, Len(arg)), written)
       [] OTHER -> out = arg

\* every call made so far maps each argument on its own, in place
EachMappedAs(written) ==
  \A i \in 1..Len(log) :
    log[i].e = "incrementNodeInspectorPort" =>
      /\ Len(log[i].toks2) = Len(log[i].toks)
      /\ \A k \in 1..Len(log[i].toks) : MappedAs(log[i].toks[k], log[i].toks2[k], written)

\* C22 as stated: each argument is mapped on its own, the list keeps its length
\* and order; the bare --inspect and --inspect-brk get 127.0.0.1:9230, a numeric
\* port is incremented, a host gets :9230, host:port gets the port incremented;
\* an argument whose port has the value 0 and every other argument is unchanged.
C22_PortOfValueZeroIsUnchanged == EachMappedAs(FALSE)

\* C22: the same, where the port that is left unchanged is the port written
\* exactly "0": a port of value 0 written with more digits is incremented to 1.
C22_PortWrittenZeroIsUnchanged == EachMappedAs(TRUE)

\* a list of two arguments: a host with a port, which is incremented, and a port
\* "0", which is not
C22_Witness ==
  /\ log # <<>>
  /\ log[1].e = "incrementNodeInspectorPort"
  /\ log[1].toks = <<I_brk \o <<"=", "h", ":", "1", "9">>, I_port \o <<"=", "0">>>>
  /\ log[1].toks2 = <<I_brk \o <<"=", "h", ":", "2", "0">>, I_port \o <<"=", "0">>>>

(***************************************************************************)
(* Programs whose option and positional have a parseArg.  The option is on *)
(* the program, the positional on its subcommand serve; the program may    *)
(* have an asynchronous preSubcommand hook, and the option an environment  *)
(* variable.                                                               *)
(***************************************************************************)
TransformKinds == {"none", "ok", "invalid", "invalid2", "invalid0", "custom"}

TransformTree(exit, hooks, onOption, onArgument) ==
  LET t1 == addOptions(exitOverride(NewTree, "prog", exit), "prog",
                       <<[OptPort EXCEPT !.parseArg = onOption, !.envVar = "PORT"]>>)
      t2 == command(t1, "prog", "serve", T_serve, FALSE, FALSE)
      t3 == action(addArgument(t2, "serve", [MkArgument("x", FALSE, FALSE)
                                               EXCEPT !.parseArg = onArgument]),
                   "serve", "sync")
  IN IF hooks = "async" THEN hook(t3, "prog", "preSubcommand", "ps1", "async") ELSE t3

TransformConfigs ==
  {[cmds |-> TransformTree(exit, hooks, onOption, onArgument).cmds,
    env |-> [NoEnv EXCEPT !.vars = vars_]] :
     exit \in {"none", "default"}, hooks \in {"none", "async"},
     onOption \in TransformKinds, onArgument \in TransformKinds,
     vars_ \in {{}, {"PORT"}}}

TransformTokens == {T_port, T_8, T_p8, T_serve, T_x}
TransformArgvs == ListsUpTo(TransformTokens, MaxArgv + 1)

InitTransform ==
  /\ \E config \in TransformConfigs :
       /\ cmds = config.cmds
       /\ env = config.env
  /\ log = <<>>
  /\ status = "idle"
  /\ err = NoErr
  /\ promise = "none"
  /\ awaiting = ""
  /\ thens = <<>>
  /\ epoch = 0
  /\ argv = <<>>
  /\ prevArgv = <<>>
  /\ parsed = NoParsed
  /\ calls = 1

NextTransform ==
  \/ \E args \in TransformArgvs : Parse(args)
  \/ Resolve
  \/ Reject
  \/ ThenCallback

SpecTransform == InitTransform /\ [][NextTransform]_vars

\* the uniform prefixes of the message about a value that a parseArg rejected
InvalidArgumentPrefixes ==
  {"error: option '<flags>' argument '<val>' is invalid.",
   "error: option '<flags>' value '<val>' from env '<envVar>' is invalid.",
   "error: command-argument value '<val>' is invalid for argument '<name>'."}

\* the throw at position i of the history went through Command.error: the message
\* is a uniform prefix and the message of the parseArg, and the terminator gets the
\* code of the error and the exit code x
EndedThroughError(i, x) ==
  /\ i < Len(log)
  /\ log[i + 1].e = "outputError"
  /\ log[i + 1].m.t \in InvalidArgumentPrefixes
  /\ log[i + 1].m.n2 = "transform message"
  /\ \E j \in (i + 2)..Len(log) :
       /\ log[j].e = "_exit"
       /\ log[j].code = "commander.invalidArgument"
       /\ log[j].x = x
       /\ log[j].m = log[i + 1].m
  /\ Cardinality({j \in 1..Len(log) : log[j].e = "_exit"}) = 1

\* nothing was written as an error and the terminator was not invoked
NoErrorOutputNoTerminator ==
  \A j \in 1..Len(log) : log[j].e \notin {"outputError", "_exit", "exitCallback", "process.exit"}

\* a promise of a hook was awaited before the latest event of the history
AfterAwait == \E j \in 1..Len(log) : log[j].e = "fulfilled"

\* C23 as stated: when a parseArg throws an error with the code
\* commander.invalidArgument, the parse ends through Command.error with that code
\* and the exit code of the error, the message being the uniform prefix and the
\* message of the parseArg; when it throws another error, that error reaches the
\* caller of parse() and neither the error output nor the terminator is invoked.
C23_TransformErrorKeepsExitCodeAndIsThrown ==
  \A i \in 1..Len(log) :
    log[i].e = "parseArgThrew" =>
      IF log[i].code = "commander.invalidArgument"
      THEN EndedThroughError(i, log[i].x)
      ELSE /\ status = "thrown"
           /\ err = UserError("custom")
           /\ NoErrorOutputNoTerminator

\* C23: the same, where the exit code is 1 when the error has the exit code 0, and
\* where the other error reaches the caller of parse() unless the parseArg ran
\* after the promise of a hook was awaited: then it rejects the promise chain.
C23_TransformErrorEndsParse ==
  \A i \in 1..Len(log) :
    log[i].e = "parseArgThrew" =>
      IF log[i].code = "commander.invalidArgument"
      THEN EndedThroughError(i, IF log[i].x = 0 THEN 1 ELSE log[i].x)
      ELSE /\ status = IF AfterAwait THEN "rejected" ELSE "thrown"
           /\ err = UserError("custom")
           /\ NoErrorOutputNoTerminator

\* the parseArg of the positional threw an error with the exit code 2, and the
\* exit override threw the CommanderError with that exit code to the caller
C23_Witness ==
  /\ \E i \in 1..Len(log) :
       /\ log[i].e = "parseArgThrew"
       /\ log[i].c = "serve"
       /\ log[i].x = 2
  /\ status = "thrown"
  /\ err.code = "commander.invalidArgument"
  /\ err.exitCode = 2

(***************************************************************************)
(* Pass-through options, under SpecPO.                                     *)
(***************************************************************************)
\* the positions of the tokens the scan met that are neither "--" nor an option of
\* the program nor the value of one
Unrecognised == {k \in parsed.scanned : argv[k] # T_dd /\ SignalsAt(k) = <<>>}

\* the first of them, 0 when there is none
FirstUnrecognised ==
  IF Unrecognised = {}
  THEN 0
  ELSE CHOOSE k \in Unrecognised : \A j \in Unrecognised : k <= j

\* the check for a subcommand, the help command or a default command is met by
\* the token at position k
SubcommandCheckTriggers(k) ==
  \/ _findCommand(World, "prog", argv[k]) # <<>>
  \/ _getHelpCommand(World, "prog") = <<argv[k]>>
  \/ cmds["prog"].defaultCommandName # <<>>

\* parseOptions returned on a program with pass-through options, after it met a
\* token that is not an option of the program and is no subcommand either
PassedThrough ==
  /\ parsed.called
  /\ status = "done"
  /\ cmds["prog"].passThroughOptions
  /\ FirstUnrecognised > 0
  /\ ~SubcommandCheckTriggers(FirstUnrecognised)

\* no token from position k on caused a value-assignment signal
NoSignalFrom(k) == \A j \in 1..Len(log) : log[j].e = "option" => log[j].at < k

Signals == {"SIGTERM", "SIGINT"}
ChildCodes == {0, 1, 2, NullCode}
ExitCallbacks == {"default", "throws", "returns"}

InitExec ==
  /\ cmds \in {ExecProgram(exit).cmds : exit \in {"none"} \cup ExitCallbacks}
  /\ env = NoEnv
  /\ log = <<>>
  /\ status = "idle"
  /\ err = NoErr
  /\ promise = "none"
  /\ awaiting = ""
  /\ thens = <<>>
  /\ epoch = 0
  /\ argv = <<>>
  /\ prevArgv = <<>>
  /\ parsed = NoParsed
  /\ calls = 1

\* the child process ends: with an exit code, or through a signal (null)
ChildExit(c, code) ==
  /\ status # "exited"
  /\ cmds[c].runningCommand # <<>>
  /\ ~cmds[c].runningCommand[1].exited
  /\ cmds' = [cmds EXCEPT ![c].runningCommand[1].exited = TRUE,
                          ![c].runningCommand[1].exitCode = code]
  /\ UNCHANGED <<env, log, status, err, promise, awaiting, thens, epoch, argv, prevArgv,
                 parsed, calls>>

\* the "close" event of the child process that has ended
ChildClosed(c) ==
  /\ status # "exited"
  /\ cmds[c].runningCommand # <<>>
  /\ cmds[c].runningCommand[1].exited
  /\ ~cmds[c].runningCommand[1].closed
  /\ Commit(Uncaught(closeHandler(World, c, cmds[c].runningCommand[1].exitCode)))
  /\ UNCHANGED <<argv, prevArgv, parsed, calls>>

\* the parent process receives a termination signal
Signal(c, signal) ==
  /\ status # "exited"
  /\ Cardinality({i \in DOMAIN log : log[i].e = "signal"}) < MaxSignals
  /\ cmds[c].runningCommand # <<>>
  /\ Commit(signalHandler(LogEv(World, [Ev("signal", c) EXCEPT !.n = signal]), c, signal))
  /\ UNCHANGED <<argv, prevArgv, parsed, calls>>

\* the application installs another exit callback after the parse has returned
CallExitOverride(fn) ==
  /\ status = "done"
  /\ cmds["prog"].exitCallback # fn
  /\ Commit(exitOverride(World, "prog", fn))
  /\ UNCHANGED <<argv, prevArgv, parsed, calls>>

NextExec ==
  \/ \E args \in ListsUpTo({T_serve, T_x}, MaxArgv) : Parse(args)
  \/ \E code \in ChildCodes : ChildExit("prog", code)
  \/ ChildClosed("prog")
  \/ \E signal \in Signals : Signal("prog", signal)
  \/ \E fn \in ExitCallbacks : CallExitOverride(fn)

SpecExec == InitExec /\ [][NextExec]_vars

\* the spawned child process of prog, and the exit callback prog had at the spawn
Proc == cmds["prog"].runningCommand[1]
HasSpawned == \E i \in DOMAIN log : log[i].e = "spawn"
SpawnedWith == log[CHOOSE i \in DOMAIN log : log[i].e = "spawn"].n

\* the calls of the terminator: the exit callback, or process.exit
TerminatorCalls == {i \in DOMAIN log : log[i].e \in {"exitCallback", "process.exit"}}

\* the step in which the close handler of the child runs
CloseStep ==
  /\ HasSpawned
  /\ ~Proc.closed
  /\ cmds'["prog"].runningCommand[1].closed

\* what the close handler does with the exit code the child ended with
ClosedThroughTerminator ==
  LET n == Len(log)
      code == IF Proc.exitCode = NullCode THEN 1 ELSE Proc.exitCode
  IN /\ Len(log') = n + 2
     /\ log'[n + 1].e = "close"
     /\ IF SpawnedWith = "none"
          THEN /\ log'[n + 2] = [Ev("process.exit", "") EXCEPT !.x = code]
               /\ status' = "exited"
          ELSE /\ log'[n + 2] = [Ev("exitCallback", "prog")
                                   EXCEPT !.x = code,
                                          !.code = "commander.executeSubCommandAsync",
                                          !.m = Msg("(close)")]
               /\ SpawnedWith \in {"default", "returns"} => status' = status /\ err' = err
               /\ SpawnedWith = "throws" => status' = "exited" /\ err' = CustomError

\* the signals that reach the child in this step
Forwarded == {i \in (Len(log) + 1)..Len(log') : log'[i].e = "kill"}

ScanTokens == {T_dd, T_au, T_adash, T_ab, T_port, T_l, T_u, T_x, T_serve}
ScanArgs == ListsUpTo(ScanTokens, MaxLen)

NextScan == \E args \in ScanArgs : CallParseOptions(args)

SpecScan == InitPO /\ [][NextScan]_vars

\* operands followed by unknown
Output == parsed.operands \o parsed.unknown

\* the ways of naming, for each element of the output, the input position it comes
\* from, keeping the order of the input
Origins ==
  {f \in [1..Len(Output) -> 1..Len(argv)] :
     \A i, j \in 1..Len(Output) : i < j => f[i] < f[j]}

\* the input positions no element of the output comes from
Missing(f) == (1..Len(argv)) \ {f[i] : i \in 1..Len(Output)}

\* the token at position k was recognised as an option, or taken as a value
TakenByOption(k) == SignalsAt(k) # <<>> \/ ConsumedAsValue(k)

\* the "--" separators among a set of positions
Separators(ks) == {k \in ks : argv[k] = T_dd /\ ~TakenByOption(k)}

\* r is what is left of the group of short flags t after its first flags
IsRestOfGroup(r, t) ==
  /\ Len(t) > 2
  /\ t[1] = "-"
  /\ t[2] # "-"
  /\ \E j \in 3..Len(t) : r = <<"-">> \o SubSeq(t, j, Len(t))

\* C26, as stated: operands followed by unknown is a subsequence of the input (each
\* element is an input token, each input token is used at most once, the order is
\* kept), and the input tokens missing from it are exactly the recognised option
\* tokens, the tokens consumed as their values, and at most one "--".
C26_OutputIsSubsequenceOfInput ==
  (parsed.called /\ status = "done") =>
    \E f \in Origins :
      /\ \A i \in 1..Len(Output) : Output[i] = argv[f[i]] /\ ~TakenByOption(f[i])
      /\ \A k \in Missing(f) : TakenByOption(k) \/ argv[k] = T_dd
      /\ Cardinality(Separators(Missing(f))) <= 1

\* C26, amended: each element of operands followed by unknown comes from one input
\* token, in input order, no two from the same: it is that token, unrecognised, or it
\* is the rest of a group of short flags whose first flags were recognised, with "-"
\* put before it; the input tokens no element comes from are tokens that gave a
\* value-assignment signal, tokens consumed as values, and at most one "--".
C26_OutputIsInputOrRestOfGroup ==
  (parsed.called /\ status = "done") =>
    \E f \in Origins :
      /\ \A i \in 1..Len(Output) :
           \/ Output[i] = argv[f[i]] /\ ~TakenByOption(f[i])
           \/ IsRestOfGroup(Output[i], argv[f[i]]) /\ SignalsAt(f[i]) # <<>>
      /\ \A k \in Missing(f) : TakenByOption(k) \/ argv[k] = T_dd
      /\ Cardinality(Separators(Missing(f))) <= 1

\* C26: after an option with its value, a group of a flag and an unknown letter
C26_Witness ==
  /\ parsed.called
  /\ status = "done"
  /\ argv = <<T_port, T_x, T_au>>
  /\ SignalNames(SignalsAt(3)) = <<"a">>
  /\ parsed.operands = <<>>
  /\ parsed.unknown = <<T_u>>

\* the token at position k was never looked at as a possible option: the scan did
\* not fetch it to classify it, and it was not taken as the value of an option
Exempt(k) == k \notin parsed.scanned /\ ~ConsumedAsValue(k)

\* C27, as stated, for a command that has enabled neither positional nor pass-through
\* options: parseOptions leaves a token exempt from option interpretation only when
\* an input token before it is exactly "--"; no other token, such as the group -a-
\* with a registered boolean -a, ends the interpretation of options.
C27_OnlyLiteralEndsOptionScan ==
  (/\ parsed.called
   /\ status = "done"
   /\ ~cmds["prog"].enablePositionalOptions
   /\ ~cmds["prog"].passThroughOptions)
    => \A k \in 1..Len(argv) :
         Exempt(k) => \E j \in 1..(k - 1) : argv[j] = T_dd

\* ---------------------------------------------------------------------------
\* Declaring commands with positional and pass-through options: the application
\* constructs commands, adds them, and switches the two settings on and off.

CallEnablePositionalOptions(c, positional) ==
  /\ status = "idle"
  /\ calls > 0
  /\ Declared(enablePositionalOptions([World EXCEPT !.status = "running"], c, positional),
              [Ev("enablePositionalOptions", c) EXCEPT !.v = Bool(positional, 0)])

CallPassThroughOptions(c, passThrough) ==
  /\ status = "idle"
  /\ calls > 0
  /\ Declared(passThroughOptions([World EXCEPT !.status = "running"], c, passThrough),
              [Ev("passThroughOptions", c) EXCEPT !.v = Bool(passThrough, 0)])

NextPass ==
  \/ \E name \in BuildNames : Construct(name)
  \/ \E c \in Objects, name \in BuildNames : CallCommand(c, name, FALSE, FALSE)
  \/ \E c, cmd \in Objects : CallAddCommand(c, cmd, FALSE)
  \/ \E c \in Objects, positional \in BOOLEAN : CallEnablePositionalOptions(c, positional)
  \/ \E c \in Objects, passThrough \in BOOLEAN : CallPassThroughOptions(c, passThrough)

SpecPass == InitBuild /\ [][NextPass]_vars

\* the call of this step threw because pass-through options need positional options
\* on the parent command
ThrewBrokenPassThrough(call) ==
  /\ status = "idle"
  /\ status' = "thrown"
  /\ err' = BuildError("passThroughOptions cannot be used")
  /\ log'[Len(log')].e = call

\* C28, as stated: when passThroughOptions(true) or addCommand(cmd) throws because
\* the parent has not enabled positional options, the state is as before the call:
\* the pass-through flag of the command has its previous value, and cmd is not in
\* the children list of the parent and has no parent reference set.
C28_BrokenPassThroughCallChangesNothing ==
  /\ [][ThrewBrokenPassThrough("passThroughOptions") =>
          LET c == log'[Len(log')].c
          IN cmds'[c].passThroughOptions = cmds[c].passThroughOptions]_vars
  /\ [][ThrewBrokenPassThrough("addCommand") =>
          LET c == log'[Len(log')].c
              cmd == log'[Len(log')].c2
          IN /\ cmds'[c].commands = cmds[c].commands
             /\ cmds'[cmd].parent = cmds[cmd].parent]_vars

\* ---------------------------------------------------------------------------
\* Programs on which every check of _parseCommand can fail: a mandatory option,
\* two conflicting options, a required argument, and an action.

HelpShapes == {"leaf", "plain", "subOwn", "subAnc"}

\* -a, -b (conflicts with -a) and the mandatory -p, --port <n> on the root ("leaf",
\* "plain", "subAnc") or on the subcommand serve ("subOwn"); the argument <x> and the
\* action on the root ("leaf"; "plain" has the argument and no action) or on serve
HelpTree(exit, shape) ==
  LET t0 == exitOverride(NewTree, "prog", exit)
      on == IF shape \in {"leaf", "plain"} THEN "prog" ELSE "serve"
      t1 == CASE shape = "leaf" -> action(t0, "prog", "sync")
              [] shape = "plain" -> t0
              [] OTHER ->
                   action(command(t0, "prog", "serve", T_serve, FALSE, FALSE), "serve", "sync")
      t2 == addOptions(t1, IF shape = "subOwn" THEN "serve" ELSE "prog",
                       <<OptA, [OptB EXCEPT !.conflictsWith = {"a"}],
                         [OptPort EXCEPT !.mandatory = TRUE]>>)
  IN addArgument(t2, on, MkArgument("x", TRUE, FALSE))

HelpPrograms ==
  {HelpTree(exit, shape).cmds : exit \in {"none", "default", "returns"}, shape \in HelpShapes}

HelpTokens == {T_a, T_b, T_u, T_x, T_helpflag, T_serve}
HelpArgvs == ListsUpTo(HelpTokens, MaxHelpArgv)

InitHelp ==
  /\ cmds \in HelpPrograms
  /\ env = NoEnv
  /\ log = <<>>
  /\ status = "idle"
  /\ err = NoErr
  /\ promise = "none"
  /\ awaiting = ""
  /\ thens = <<>>
  /\ epoch = 0
  /\ argv = <<>>
  /\ prevArgv = <<>>
  /\ parsed = NoParsed
  /\ calls = 1

NextHelp == \E args \in HelpArgvs : Parse(args)

SpecHelp == InitHelp /\ [][NextHelp]_vars

\* the terminations of the parse, in order
Exits == SelectSeq(log, LAMBDA ev : ev.e = "_exit")

\* help was displayed for command c and ended the parse with exit code 0, no error
\* was written and no action ran
EndedInHelpDisplayed(c) ==
  /\ Exits = <<[Ev("_exit", c) EXCEPT !.x = 0, !.code = "commander.helpDisplayed",
                                      !.m = Msg("(outputHelp)")]>>
  /\ \E k \in 2..Len(log) :
       /\ log[k].e = "_exit"
       /\ log[k - 1] = [Ev("outputHelp", c) EXCEPT !.n = "writeOut"]
  /\ OutputErrors = {}
  /\ \A j \in 1..Len(log) : log[j].e # "action"
  /\ status \in {"thrown", "exited"}
  /\ status = "thrown"
       => err = CommanderError(0, "commander.helpDisplayed", Msg("(outputHelp)"))
  /\ status = "exited" => log[Len(log)] = [Ev("process.exit", "") EXCEPT !.x = 0]

\* C29: on the command that consumes its own tokens, if its help flag is among the
\* tokens it did not recognise, the parse ends with helpDisplayed and exit code 0,
\* no error of the mandatory-option, conflicting-option, unknown-option or
\* positional-count check (of the command or of its ancestors) is reported first,
\* and the action is not invoked.
C29_HelpFlagComesBeforeTheChecks ==
  \A i \in 1..Len(log) :
    (ConsumesOwnTokens(i) /\ HelpFlagGiven(i)) => EndedInHelpDisplayed(log[i].c)

\* the command of event i has an option that conflicts with another one, both given
ConflictGiven(i) == ConflictsIn(log[i].c) # {}

\* help was asked of the subcommand serve with both conflicting options given, the
\* mandatory option without a value and the required argument missing
C29_Witness ==
  \E i \in 1..Len(log) :
    /\ ConsumesOwnTokens(i)
    /\ HelpFlagGiven(i)
    /\ log[i].c = "serve"
    /\ log[i].toks = <<>>
    /\ ConflictGiven(i)
    /\ MandatoryWithoutValue("serve") # {}
    /\ EndedInHelpDisplayed("serve")

\* ---------------------------------------------------------------------------
\* Programs with an action on the root and on the subcommand serve, a throwing exit
\* override, and the options and the argument of the programs above.

ActShapes == {"leaf", "both", "bothOwn"}

\* the root has an action; with "both" and "bothOwn" serve has one too, and the
\* required argument <x>; the options are on the root, or on serve ("bothOwn");
\* hooks "async" gives the root an asynchronous preSubcommand and preAction hook
ActTree(exit, shape, hooks, act) ==
  LET t0 == action(exitOverride(NewTree, "prog", exit), "prog", "sync")
      on == IF shape = "leaf" THEN "prog" ELSE "serve"
      t1 == IF shape = "leaf"
            THEN t0
            ELSE action(command(t0, "prog", "serve", T_serve, FALSE, FALSE), "serve", act)
      t2 == addOptions(t1, IF shape = "bothOwn" THEN "serve" ELSE "prog",
                       <<OptA, [OptB EXCEPT !.conflictsWith = {"a"}],
                         [OptPort EXCEPT !.mandatory = TRUE]>>)
      t3 == addArgument(t2, on, MkArgument("x", TRUE, FALSE))
  IN IF hooks = "none"
     THEN t3
     ELSE hook(hook(t3, "prog", "preSubcommand", "ps1", "async"),
               "prog", "preAction", "pa1", "async")

ActPrograms ==
  {ActTree(exit, shape, hooks, act).cmds :
     exit \in {"default", "throws"}, shape \in ActShapes, hooks \in {"none", "async"},
     act \in {"sync", "async"}}

ActTokens == {T_a, T_b, T_p8, T_u, T_x, T_serve}
ActArgvs == ListsUpTo(ActTokens, MaxArgv + 1)

InitAct ==
  /\ cmds \in ActPrograms
  /\ env = NoEnv
  /\ log = <<>>
  /\ status = "idle"
  /\ err = NoErr
  /\ promise = "none"
  /\ awaiting = ""
  /\ thens = <<>>
  /\ epoch = 0
  /\ argv = <<>>
  /\ prevArgv = <<>>
  /\ parsed = NoParsed
  /\ calls = 1

NextAct ==
  \/ \E args \in ActArgvs : Parse(args)
  \/ Resolve
  \/ Reject
  \/ ThenCallback

SpecAct == InitAct /\ [][NextAct]_vars

\* every command of the tree has an exit callback that throws
ThrowingExitOverride ==
  \A c \in DOMAIN cmds :
    (c = "prog" \/ cmds[c].parent # NoCmd) => cmds[c].exitCallback \in {"default", "throws"}

\* the invocations of action handlers, as positions of the history
ActionCalls == {k \in 1..Len(log) : log[k].e = "action"}

\* the number of operands of command c agrees with the arguments it declares
ArgumentCountFits(c) ==
  LET registered == cmds[c].registeredArguments
      n == Len(cmds[c].args)
  IN /\ \A j \in 1..Len(registered) : registered[j].required => j <= n
     /\ \/ n <= Len(registered)
        \/ cmds[c].allowExcessArguments
        \/ Len(registered) > 0 /\ registered[Len(registered)].variadic

\* the four checks of the command of event i pass
ChecksPass(i) ==
  /\ MandatoryWithoutValue(log[i].c) = {}
  /\ ConflictsIn(log[i].c) = {}
  /\ log[i].toks2 = <<>> \/ cmds[log[i].c].allowUnknownOption
  /\ ArgumentCountFits(log[i].c)

CheckCategories ==
  {"commander.missingMandatoryOptionValue", "commander.conflictingOption",
   "commander.unknownOption", "commander.missingArgument", "commander.excessArguments"}

\* C30: in a parse() call with a throwing exit override at most one action handler
\* of the tree is invoked, at most once; it is the handler of the command that
\* finally consumed the tokens, it is invoked only when the mandatory-option,
\* conflicting-option, unknown-option and positional-count checks of that command
\* have passed, and no action runs in a parse that ends in an error of those checks.
C30_OneActionAfterTheChecks ==
  ThrowingExitOverride =>
    /\ Cardinality(ActionCalls) <= 1
    /\ \A k \in ActionCalls :
         /\ \E i \in 1..(k - 1) :
              /\ ConsumesOwnTokens(i)
              /\ log[i].c = log[k].c
              /\ \A j \in (i + 1)..Len(log) : log[j].e # "classified"
              /\ ChecksPass(i)
         /\ \A j \in 1..Len(log) :
              log[j].e = "_exit" => log[j].code \notin CheckCategories

\* the action of serve ran behind the asynchronous hooks of the root, after an option
\* of the root and the argument of serve were given; the action of the root did not
C30_Witness ==
  /\ ThrowingExitOverride
  /\ cmds["prog"].actionHandler # "none"
  /\ cmds["prog"].lifeCycleHooks["preAction"] # <<>>
  /\ argv = <<T_p8, T_serve, T_x>>
  /\ \E k \in ActionCalls : log[k].c = "serve"
  /\ status = "done"

====
